---- MODULE Spec2Model ----
(***************************************************************************)
(* Verification model of the DCCLiveSteam locomotive controller.           *)
(*                                                                         *)
(* SpecWd : the safety Watchdog (app/safety.py) together with              *)
(*          DCCDecoder.is_active (app/dcc_decoder.py), driven by arbitrary *)
(*          clock advances, packets, sensor-health updates and check()     *)
(*          calls.  loco.die is the recording double the Watchdog's        *)
(*          interface allows (loco: Any): it returns to check().           *)
(*                                                                         *)
(* SpecTick: the watchdog path of run() (main.py:504-525, 558-561): every  *)
(*          20 ms tick hands dcc.is_active() and the sensor readings to    *)
(*          Watchdog.check; a shutdown ends in machine.deepsleep().        *)
(*                                                                         *)
(* Spec   : the control loop run() (app/main.py) with Locomotive.die, the  *)
(*          managers, the servo mapper and the heater outputs, one action  *)
(*          per numbered step of the loop body.  Components are composed   *)
(*          as run() and Locomotive.__init__ compose them; every call is   *)
(*          modelled by the body of its callee working on the loop's CV    *)
(*          table: Watchdog.__init__ takes no argument although            *)
(*          Locomotive.__init__ hands it cv, and Actuators.set_regulator   *)
(*          hands None as cv to set_goal/update; the model evaluates       *)
(*          those bodies on the CV table the loop holds.  Both heater      *)
(*          writers (PressureController, Actuators) drive the same two     *)
(*          pins (config.py PIN_BOILER, PIN_SUPER).  The DCC interrupt and *)
(*          the e-stop request are taken while the foreground sleeps.      *)
(*                                                                         *)
(* SpecErr: Spec together with the call of main.py:528 as the source has   *)
(*          it: Actuators.set_regulator hands None as cv, set_goal         *)
(*          subscripts it and raises TypeError, which leaves run().        *)
(*                                                                         *)
(* Servo positions are fixed-point: 1 PWM unit = SCALE model units.        *)
(* Time is in milliseconds (time.ticks_ms); time.time() seconds are        *)
(* represented on the same clock (1 s = 1000 ms).                          *)
(***************************************************************************)
EXTENDS Integers, Sequences, FiniteSets, TLC

\* ---- CV table entries used by the modelled code (app/config.py CV_DEFAULTS,
\* CV44 at the lower bound of CV_BOUNDS, the value of scenario S1) ----
CV41 == 75
CV42 == 110
CV43 == 250
CV44 == 5
CV45 == 8
CV88 == 20
CV33 == 35
CV46 == 77
CV47 == 128
CV48 == 5
CV49 == 1000
\* CV51 power budget, in mA (4.5 A)
CV51_mA == 4500
EVENT_BUFFER_SIZE == 20
\* Margin between target and maximum boiler pressure, in 0.1 kPa (config.py:2)
PRESSURE_MARGIN_KPA == 150

\* Track voltage threshold in mV (safety.py:445)
TRACK_V_MIN == 1500
\* is_active window in ms (dcc_decoder.py:247)
DCC_ACTIVE_MS == 500

\* Control period of run() in ms (main.py:560)
LOOP_MS == 20
\* CachedSensorReader._max_cache_age_ms (cached_sensor_reader.py)
MAX_CACHE_AGE_MS == 100
\* PWM full scale of the heater channels (actuators/__init__.py:35)
PWM_MAX == 1023
\* dt handed to the pressure manager when no time has elapsed, ms (main.py:541)
DT_DEFAULT_MS == 20
\* The two blocking waits of die(), ms (main.py:187, 191)
WHISTLE_WAIT_MS == 5000
NEUTRAL_WAIT_MS == 500

\* ---- bounds of the model ----
MaxAdvances == 2
MaxTicks == 7
MaxEnvEvents == 2
MaxTickTime == 1100
MaxCalls == 2        \* calls of PressureManager.process / PowerManager.process on their own
MaxPackets == 3
MaxUpdates == 4
MaxQueueCalls == 7      \* packets handed to one DCCDecoder

\* Clock advances offered to the environment (ms): a signal-timeout sized
\* gap and a degraded-timeout sized gap.
Steps == {500, 21000}
\* Sensor readings offered to check(): one below and one above each limit.
LogicTemps == {50, 80}
BoilerTemps == {95, 115}
SuperTemps == {200, 260}
TrackVolts == {0, 14000}
FailedCounts == {0, 1, 2}

\* DCC speed steps and directions a decoded speed packet may carry
DccSpeeds == {0, 31}
DccDirections == {0, 1}

\* The values CV_BOUNDS allows for CV44 (config.py:188)
CV44_MIN == 5
CV44_MAX == 100
\* Times since the last valid packet offered to is_active(), ms: around the
\* 500 ms window and around CV44*100 for CV44 = 20 and 100
ElapsedTimes == {0, 100, 499, 500, 501, 600, 1999, 2000, 2001, 9999, 10000, 10001}

\* Pressure readings (psi) a cache refresh may see, and the sets of channels
\* (1 boiler, 2 superheater, 3 logic) whose ADC reads as failed (999.9)
PressureReadings == {10, 30}
FailedChannels == {{}, {1}, {1, 2}}
PsiInputs == {-1, 10, 30}   \* pressure handed to process(); negative raises
DtInputs == {0, 20}         \* dt in ms; non-positive raises
\* CV numbers handed to validate_and_update_cv; 99 is in no table
CvNumbers == {32, 35, 41, 42, 43, 99}
\* the servo end points
ServoCvNumbers == {46, 47}
\* value strings handed to validate_and_update_cv
ValueStrings == {"abc", "nan", "69.9", "70", "85", "1e2", "120", "207.0", "220",
                 "240", "270", "270.1"}
\* DCC packets as bytes: speed 31 forward / stop / F0 on for address 3, speed
\* and F0 for address 4, speed for the long addresses 1000 and 1001, and a
\* two-byte fragment
DccPackets == {<<3, 127, 124>>, <<3, 64, 67>>, <<3, 144, 147>>, <<4, 127, 123>>,
               <<4, 144, 148>>, <<195, 232, 127, 84>>, <<195, 233, 127, 85>>,
               <<3, 127>>}
\* decoder configurations: short address CV1 = 3, long address 1000 (CV17/18)
Decoders == {[long_addr |-> FALSE, addr |-> 3], [long_addr |-> TRUE, addr |-> 1000]}
\* time between two packets in ms
PACKET_GAP_MS == 10
\* CV<n>=<value> lines written by the BLE peer, newline included
CommandLines == {<<"C", "V", "4", "2", "=", "1", "e", "2", "\n">>,
                 <<"C", "V", "4", "1", "=", "7", "0", "\n">>}
BudgetInputs == {100, 2000, CV51_mA}      \* CV51 in mA
BoilerDuties == {0, 306, 800, 1023}
SuperDuties == {0, 255, 1023}

VARIABLES
    now,        \* time.ticks_ms()
    advances,   \* number of clock advances taken (SpecWd, bounded)
    wd,         \* Watchdog fields
    last_valid, \* DCCDecoder.last_valid
    dieLog,     \* causes handed to loco.die by Watchdog.check, in call order
    chk,        \* the latest check() call: inputs, mode on entry, causes it passed to die
    pc,         \* position of the foreground in run() / die()
    ticks,      \* loop iterations started
    envEvents,  \* DCC-side events taken so far (bounded)
    loop,       \* locals of run(): loop_start, last_encoder_time, temps, track_v, pressure, time_ms, dcc_speed
    cache,      \* CachedSensorReader: temps (boiler, super, logic), pressure, track_v, last_update
    sensors,    \* SensorSuite: _cached_temps (boiler, super, logic), failed_sensor_count
    dcc,        \* DCCDecoder: current_speed, direction, e_stop
    mech,       \* MechanicalMapper fields
    servoDuty,  \* duty on the servo PWM pin
    boilerDuty, \* duty on the boiler heater pin
    superDuty,  \* duty on the superheater pin
    act,        \* Actuators._boiler_pwm, _superheater_pwm
    pm,         \* PressureManager: integral, last_error, spike timer, pressure_sensor_available
    sm,         \* SpeedManager._last_regulator, in 1/127 percent
    event_buffer, \* Locomotive.event_buffer (type, data)
    file_queue, \* Locomotive.file_queue._queue
    dieCtx,     \* the die() call in progress: cause, force_close_only, return position
    fx,         \* effects of the latest die() call, in program order
    obs,        \* what happened in the current tick
    call,       \* a single call of a function on drawn inputs: op, arguments, result
    cv_table,   \* the CV dictionary of load_cvs(), by CV number, values in tenths
    ble         \* BLE_UART: _rx_buffer, rx_queue

wdVars == <<now, advances, wd, last_valid, dieLog, chk>>
loopVars == <<pc, ticks, envEvents, loop, cache, sensors, dcc, mech,
              servoDuty, boilerDuty, superDuty, act, pm, sm, event_buffer,
              file_queue, dieCtx, fx, obs, call, cv_table, ble>>
vars == <<now, advances, wd, last_valid, dieLog, chk, pc, ticks, envEvents, loop,
          cache, sensors, dcc, mech, servoDuty, boilerDuty, superDuty,
          act, pm, sm, event_buffer, file_queue, dieCtx, fx, obs, call,
          cv_table, ble>>

Max(a, b) == IF a >= b THEN a ELSE b
Min(a, b) == IF a <= b THEN a ELSE b
Clamp(lo, hi, x) == Max(lo, Min(hi, x))
Abs(x) == IF x < 0 THEN -x ELSE x

\* ---------------------------------------------------------------------------
\* Watchdog (app/safety.py)
\* ---------------------------------------------------------------------------

\* Watchdog.__init__ at time t
WatchdogInit(t) ==
    [pwr_t |-> t, dcc_t |-> t, shutdown_in_progress |-> FALSE,
     mode |-> "NOMINAL", degraded_start_time |-> -1,
     degraded_timeout_seconds |-> 20]

\* Watchdog.check_sensor_health: the Watchdog after the call
check_sensor_health(w, failed_count, t) ==
    LET w0 == IF CV88 # 0 THEN [w EXCEPT !.degraded_timeout_seconds = CV88] ELSE w
    IN IF failed_count = 0
       THEN IF w0.mode # "NOMINAL"
            THEN [w0 EXCEPT !.mode = "NOMINAL", !.degraded_start_time = -1]
            ELSE w0
       ELSE IF failed_count = 1
       THEN IF w0.mode = "NOMINAL"
            THEN [w0 EXCEPT !.mode = "DEGRADED", !.degraded_start_time = t]
            ELSE IF w0.mode = "DEGRADED"
                    /\ t - w0.degraded_start_time > w0.degraded_timeout_seconds * 1000
            THEN [w0 EXCEPT !.mode = "CRITICAL"]
            ELSE w0
       ELSE [w0 EXCEPT !.mode = "CRITICAL"]

\* ThermalCause with the thermal limits still evaluated in DEGRADED mode
ThermalCause_DegradedChecks(w, t_logic, t_boiler, t_super) ==
    IF w.mode = "CRITICAL" THEN "MULTIPLE_SENSORS_FAILED"
    ELSE IF t_logic > CV41 THEN "LOGIC_HOT"
    ELSE IF t_boiler > CV42 THEN "DRY_BOIL"
    ELSE IF t_super > CV43 THEN "SUPER_HOT"
    ELSE ""

\* ThermalCause with the boiler limit evaluated before the logic limit
ThermalCause_BoilerFirst(w, t_logic, t_boiler, t_super) ==
    IF w.mode = "DEGRADED" THEN ""
    ELSE IF w.mode = "CRITICAL" THEN "MULTIPLE_SENSORS_FAILED"
    ELSE IF t_boiler > CV42 THEN "DRY_BOIL"
    ELSE IF t_logic > CV41 THEN "LOGIC_HOT"
    ELSE IF t_super > CV43 THEN "SUPER_HOT"
    ELSE ""

\* The thermal branch of Watchdog.check (safety.py:419-442): the cause passed
\* to die, or "" when the branch falls through to the signal timers.
ThermalCause(w, t_logic, t_boiler, t_super) ==
    IF w.mode = "DEGRADED" THEN ""
    ELSE IF w.mode = "CRITICAL" THEN "MULTIPLE_SENSORS_FAILED"
    ELSE IF t_logic > CV41 THEN "LOGIC_HOT"
    ELSE IF t_boiler > CV42 THEN "DRY_BOIL"
    ELSE IF t_super > CV43 THEN "SUPER_HOT"
    ELSE ""

\* PwrTrip measuring against the DCC timer instead of the power timer
PwrTrip_WrongTimer(w, track_v, t) ==
    track_v < TRACK_V_MIN /\ t - w.dcc_t > CV45 * 100

\* The power timer of Watchdog.check (safety.py:445-450)
PwrTrip(w, track_v, t) ==
    track_v < TRACK_V_MIN /\ t - w.pwr_t > CV45 * 100

\* The DCC timer of Watchdog.check (safety.py:452-458)
DccTrip(w, dcc_active, t) ==
    ~dcc_active /\ t - w.dcc_t > CV44 * 100

\* Watchdog.check.  dieReturns tells whether loco.die comes back to check():
\* [w |-> Watchdog afterwards, dies |-> causes passed to die, in order]
check(w, t_logic, t_boiler, t_super, track_v, dcc_active, t, dieReturns) ==
    IF w.shutdown_in_progress THEN [w |-> w, dies |-> <<>>]
    ELSE
    LET tc == ThermalCause(w, t_logic, t_boiler, t_super)
    IN IF tc # ""
       THEN [w |-> [w EXCEPT !.shutdown_in_progress = TRUE], dies |-> <<tc>>]
       ELSE
       LET pt == PwrTrip(w, track_v, t)
           w1 == IF track_v < TRACK_V_MIN
                 THEN (IF pt THEN [w EXCEPT !.shutdown_in_progress = TRUE] ELSE w)
                 ELSE [w EXCEPT !.pwr_t = t]
           d1 == IF pt THEN <<"PWR_LOSS">> ELSE <<>>
       IN IF pt /\ ~dieReturns
          THEN [w |-> w1, dies |-> d1]
          ELSE
          LET dt == DccTrip(w1, dcc_active, t)
              w2 == IF ~dcc_active
                    THEN (IF dt THEN [w1 EXCEPT !.shutdown_in_progress = TRUE] ELSE w1)
                    ELSE [w1 EXCEPT !.dcc_t = t]
              d2 == IF dt THEN Append(d1, "DCC_LOST") ELSE d1
          IN [w |-> w2, dies |-> d2]

\* DCCDecoder.is_active
is_active(lv, t) == t - lv < DCC_ACTIVE_MS

\* ---------------------------------------------------------------------------
\* MechanicalMapper (app/actuators/servo.py)
\* ---------------------------------------------------------------------------

\* Model units per PWM unit: 127*100 (regulator in 1/127 percent) times 90 (degrees)
SCALE == 12700 * 90
\* time.sleep_ms(50) of the stiction kick
KICK_MS == 50
\* idle time before the jitter sleep, ms
JITTER_MS == 2000

MechInit(t) ==
    [current |-> CV46 * SCALE, target |-> CV46 * SCALE, last_t |-> t,
     stopped_t |-> t, is_sleeping |-> FALSE, was_stopped |-> TRUE,
     stiction_applied |-> FALSE, emergency_mode |-> FALSE]

\* int(position)
Duty(x) == x \div SCALE

\* int(cv[46] + (cv[47] - cv[46]) * 0.3)
KickDuty == (CV46 * 10 + (CV47 - CV46) * 3) \div 10

\* a slew rate ten times the configured one
SlewPerMs_Tenfold == (10 * Abs(CV47 - CV46) * SCALE) \div Max(100, CV49)

\* Slew per millisecond: abs(cv47 - cv46) / max(100, cv49), in model units
SlewPerMs == (Abs(CV47 - CV46) * SCALE) \div Max(100, CV49)

\* MechanicalMapper.update at time t:
\* [m |-> mapper afterwards, writes |-> duties written in order, slept |-> ms slept]
update(m, t) ==
    IF m.current = m.target
    THEN LET sl == ~m.is_sleeping /\ t - m.stopped_t > JITTER_MS
         IN [m |-> [m EXCEPT !.last_t = t, !.is_sleeping = (m.is_sleeping \/ sl),
                             !.was_stopped = TRUE, !.stiction_applied = FALSE],
             writes |-> IF sl THEN <<0>> ELSE <<>>, slept |-> 0]
    ELSE IF m.emergency_mode
    THEN [m |-> [m EXCEPT !.last_t = t, !.stopped_t = t, !.current = m.target],
          writes |-> <<Duty(m.target)>>, slept |-> 0]
    \* dt beyond the full travel time is capped: the step already covers the range
    ELSE LET kick == m.was_stopped /\ ~m.stiction_applied /\ m.target > CV46 * SCALE
             dt == IF kick THEN KICK_MS ELSE Min(t - m.last_t, Max(100, CV49))
             step == SlewPerMs * dt
             diff == m.target - m.current
             cur == IF Abs(diff) <= step THEN m.target
                    ELSE IF diff > 0 THEN m.current + step ELSE m.current - step
         IN [m |-> [m EXCEPT !.last_t = IF kick THEN t + KICK_MS ELSE t,
                             !.stopped_t = t, !.current = cur,
                             !.is_sleeping = FALSE, !.was_stopped = FALSE,
                             !.stiction_applied = (m.stiction_applied \/ kick)],
             writes |-> IF kick THEN <<KickDuty, Duty(cur)>> ELSE <<Duty(cur)>>,
             slept |-> IF kick THEN KICK_MS ELSE 0]

\* MechanicalMapper.set_goal: the target for a regulator percentage given in
\* 1/127 percent (0..12700) and the whistle flag
set_goal(reg127, whistle) ==
    LET min_drive == CV48 + 1
    IN IF reg127 > 0
       THEN CV46 * SCALE + (CV47 - CV46) * (12700 * min_drive + reg127 * (90 - min_drive))
       ELSE IF whistle THEN CV46 * SCALE + (CV47 - CV46) * 12700 * CV48
       ELSE CV46 * SCALE

\* ---------------------------------------------------------------------------
\* SpeedManager (app/managers/speed_manager.py), feedback mode: the key "52"
\* is never in the integer-keyed CV table, k_p = cv.get("51", 2.0) = 2.0,
\* target speed = dcc/127*50 cm/s, measured speed = EncoderTracker's cached
\* velocity, which run() never refreshes (0.0).
\* ---------------------------------------------------------------------------
compute_regulator(last127, dcc_speed) ==
    IF 0 <= dcc_speed /\ dcc_speed <= 127
    THEN Clamp(0, 12700, last127 + 100 * dcc_speed)
    ELSE Clamp(0, 12700, last127)

\* ---------------------------------------------------------------------------
\* PressureManager (app/managers/pressure_manager.py).  integral is in
\* psi*ms, the spike timer in ms, dt in ms.
\* ---------------------------------------------------------------------------
SUPER_25 == (PWM_MAX * 25) \div 100
SUPER_50 == (PWM_MAX * 50) \div 100
BOILER_30 == (PWM_MAX * 30) \div 100
SPIKE_MS == 1000

PmInit == [integral |-> 0, last_error |-> 0, spike_timer |-> 0, available |-> TRUE]

\* superheater stage for pressure_ratio = psi / max(1, target), dcc_speed = 0.0
StagedSuper(psi) ==
    LET tp == Max(1, CV33)
    IN IF 2 * psi < tp THEN 0
       ELSE IF 4 * psi < 3 * tp THEN SUPER_25
       ELSE SUPER_50

\* PressureManager.process: [pm, boiler, super] (the two duties handed to Actuators)
process(p, psi, regulator_open, superheater_temp, dt) ==
    IF ~p.available
    THEN [pm |-> p, boiler |-> BOILER_30, super |-> SUPER_25]
    ELSE IF psi < 0 \/ dt <= 0
    THEN [pm |-> [p EXCEPT !.available = FALSE],
          boiler |-> IF superheater_temp >= CV43 - 10 THEN 0 ELSE BOILER_30,
          super |-> IF superheater_temp >= CV43 THEN 0 ELSE SUPER_25]
    ELSE LET e == CV33 - psi
             integ == Clamp(-100000, 100000, p.integral + e * dt)
             out2000 == 40000 * e + integ + (10000000 * (e - p.last_error)) \div dt
             pid == IF out2000 <= 0 THEN 0
                    ELSE IF out2000 >= 200000 THEN PWM_MAX
                    ELSE (out2000 * PWM_MAX) \div 200000
             low == 2 * psi < Max(1, CV33)
             boiler == IF low THEN PWM_MAX ELSE pid
             timer0 == IF regulator_open THEN SPIKE_MS ELSE p.spike_timer
             timer1 == IF timer0 > 0 THEN Max(0, timer0 - dt) ELSE timer0
             super == IF timer0 > 0 /\ timer1 > 0 THEN PWM_MAX ELSE StagedSuper(psi)
         IN [pm |-> [p EXCEPT !.integral = integ, !.last_error = e, !.spike_timer = timer1],
             boiler |-> boiler, super |-> super]

\* an inverted (active-low) duty that is off by one
ClampDuty_ActiveLow(v) == PWM_MAX + 1 - Clamp(0, PWM_MAX, v)

\* Actuators.set_boiler_duty / set_superheater_duty clamp
ClampDuty(v) == Clamp(0, PWM_MAX, v)

\* ---------------------------------------------------------------------------
\* PowerManager (app/managers/power_manager.py).  estimate_total_current in
\* mA: 5 A * boiler_pwm/1023 + 0 (Actuators has no attribute super_pwm) +
\* 50 (servo_current = servo_target as captured by Actuators.__init__) + 100.
\* ---------------------------------------------------------------------------

\* estimate_total_current() > power_budget_amps, both sides times 1023 mA
OverBudgetOf(power_budget_mA, boiler_pwm) ==
    5000 * boiler_pwm + 150 * PWM_MAX > power_budget_mA * PWM_MAX

OverBudget(boiler_pwm) == OverBudgetOf(CV51_mA, boiler_pwm)

\* a PowerManager that escalates as soon as the first estimate is over budget
PowerManagerProcess_NoReestimate(power_budget_mA, a) ==
    IF ~OverBudgetOf(power_budget_mA, a.boiler_pwm)
    THEN [boiler_pwm |-> a.boiler_pwm, superheater_pwm |-> a.superheater_pwm,
          step |-> 0, raised |-> FALSE]
    ELSE [boiler_pwm |-> ClampDuty(a.boiler_pwm \div 2), superheater_pwm |-> 0,
          step |-> 4, raised |-> TRUE]

\* PowerManager.process with budget power_budget_mA on the Actuators shadow
\* duties a: the duties afterwards, the last shedding step entered (0 none,
\* 1 superheater, 2 boiler, 3 servo, 4 the safety_shutdown call) and whether
\* an exception left process().  Step 3 does nothing: Actuators has no
\* set_servo_idle.  Step 4 calls Actuators.safety_shutdown(self) with a
\* positional argument, which raises TypeError before its body runs.
PowerManagerProcess(power_budget_mA, a) ==
    IF ~OverBudgetOf(power_budget_mA, a.boiler_pwm)
    THEN [boiler_pwm |-> a.boiler_pwm, superheater_pwm |-> a.superheater_pwm,
          step |-> 0, raised |-> FALSE]
    ELSE IF ~OverBudgetOf(power_budget_mA, a.boiler_pwm)   \* amps2, superheater at 0
    THEN [boiler_pwm |-> a.boiler_pwm, superheater_pwm |-> 0,
          step |-> 1, raised |-> FALSE]
    ELSE LET new_pwm == ClampDuty(a.boiler_pwm \div 2)
         IN IF ~OverBudgetOf(power_budget_mA, new_pwm)     \* amps3
            THEN [boiler_pwm |-> new_pwm, superheater_pwm |-> 0,
                  step |-> 2, raised |-> FALSE]
            ELSE LET amps4_over == OverBudgetOf(power_budget_mA, new_pwm)
                 IN [boiler_pwm |-> new_pwm, superheater_pwm |-> 0,
                     step |-> IF amps4_over THEN 4 ELSE 3, raised |-> amps4_over]

\* PowerManager.process as run() has it, with the budget CV51:
\* [boiler_pwm, superheater_pwm, wrote, shutdown]
power_process(a) ==
    LET r == PowerManagerProcess(CV51_mA, a)
    IN [boiler_pwm |-> r.boiler_pwm, superheater_pwm |-> r.superheater_pwm,
        wrote |-> r.step > 0, shutdown |-> r.raised]

\* ---------------------------------------------------------------------------
\* SensorSuite.read_temps (app/sensors/__init__.py): raw is the converted ADC
\* triple (boiler, super, logic), failed the channels reading 999.9; a failed
\* channel returns its last good value.  [s |-> suite afterwards, t |-> result]
\* ---------------------------------------------------------------------------
read_temps(sn, raw, failed) ==
    LET t == [i \in 1..3 |-> IF i \in failed THEN sn.cached_temps[i] ELSE raw[i]]
    IN [s |-> [cached_temps |-> t, failed_sensor_count |-> Cardinality(failed)],
        t |-> t]

\* ---------------------------------------------------------------------------
\* DCCDecoder._decode_packet (app/dcc_decoder.py) on the bit buffer
\* ---------------------------------------------------------------------------

\* the bits of one byte, most significant first, followed by the separator 1
ByteBits(b) == [j \in 1..9 |-> IF j = 9 THEN 1 ELSE (b \div (2 ^ (8 - j))) % 2]

RECURSIVE PacketBits(_)
\* the bit buffer holding the bytes of a packet
PacketBits(bytes) ==
    IF bytes = <<>> THEN <<>> ELSE ByteBits(Head(bytes)) \o PacketBits(Tail(bytes))

\* dcc_decoder.py:166-173: the bytes extracted from the bit buffer; byte k
\* starts at index 9(k-1) and needs its ninth bit to be present
ExtractBytes(bits) ==
    LET n == Len(bits) \div 9
        ByteAt(k) == LET o == 9 * (k - 1)
                     IN 128 * bits[o + 1] + 64 * bits[o + 2] + 32 * bits[o + 3]
                        + 16 * bits[o + 4] + 8 * bits[o + 5] + 4 * bits[o + 6]
                        + 2 * bits[o + 7] + bits[o + 8]
    IN [k \in 1..n |-> ByteAt(k)]

\* the command part of _decode_packet: speed, direction and whistle
ApplyCommand(d, cmd_byte) ==
    IF (cmd_byte \div 64) % 4 = 1 \/ cmd_byte \div 32 = 5
    THEN [d EXCEPT !.direction = (cmd_byte \div 32) % 2, !.current_speed = cmd_byte % 32]
    ELSE IF cmd_byte \div 32 = 4
    THEN [d EXCEPT !.whistle = ((cmd_byte \div 16) % 2 = 1)]
    ELSE d

\* a decoder that refreshes last_valid before it compares the address
decode_packet_RefreshFirst(d, bits, t) ==
    LET packet == ExtractBytes(bits)
    IN IF Len(packet) < 3 THEN d
       ELSE IF d.long_addr
       THEN IF Len(packet) < 4 \/ packet[1] \div 64 # 3 THEN [d EXCEPT !.last_valid = t]
            ELSE IF (packet[1] % 64) * 256 + packet[2] # d.addr
            THEN [d EXCEPT !.last_valid = t]
            ELSE ApplyCommand([d EXCEPT !.last_valid = t], packet[3])
       ELSE IF packet[1] # d.addr THEN [d EXCEPT !.last_valid = t]
            ELSE ApplyCommand([d EXCEPT !.last_valid = t], packet[2])

\* DCCDecoder._decode_packet at ticks_ms() = t: the decoder fields afterwards
decode_packet(d, bits, t) ==
    LET packet == ExtractBytes(bits)
    IN IF Len(packet) < 3 THEN d
       ELSE IF d.long_addr
       THEN IF Len(packet) < 4 \/ packet[1] \div 64 # 3 THEN d
            ELSE IF (packet[1] % 64) * 256 + packet[2] # d.addr THEN d
            ELSE ApplyCommand([d EXCEPT !.last_valid = t], packet[3])
       ELSE IF packet[1] # d.addr THEN d
            ELSE ApplyCommand([d EXCEPT !.last_valid = t], packet[2])

\* half-bit timing windows in microseconds (config.py)
DCC_ONE_MIN == 52
DCC_ONE_MAX == 64
DCC_ZERO_MIN == 95
DCC_ZERO_MAX == 119

\* DCCDecoder._edge_handler for an edge delta microseconds after the previous
\* one: [dec, bits, ran], ran being the number of bits _decode_packet was run
\* on (0 when it was not run)
edge_handler(d, bits, delta, t) ==
    IF ~(DCC_ONE_MIN <= delta /\ delta <= DCC_ONE_MAX)
       /\ ~(DCC_ZERO_MIN <= delta /\ delta <= DCC_ZERO_MAX)
    THEN [dec |-> d, bits |-> <<>>, ran |-> 0]
    ELSE LET bit == IF DCC_ONE_MIN <= delta /\ delta <= DCC_ONE_MAX THEN 1 ELSE 0
             b == Append(bits, bit)
         IN IF Len(b) >= 24 /\ b[Len(b)] = 1
            THEN [dec |-> decode_packet(d, b, t), bits |-> <<>>, ran |-> Len(b)]
            ELSE [dec |-> d, bits |-> b, ran |-> 0]

\* ---------------------------------------------------------------------------
\* Configuration (app/config.py).  CV values are in tenths of their unit.
\* ---------------------------------------------------------------------------

\* bounds whose logic-limit row reaches the lowest boiler limit
CV_BOUNDS_LogicUpTo100 ==
    (32 :> [min |-> 700, max |-> 2070]) @@ (35 :> [min |-> 1000, max |-> 2200]) @@
    (41 :> [min |-> 600, max |-> 1000]) @@ (42 :> [min |-> 1000, max |-> 1200]) @@
    (43 :> [min |-> 2400, max |-> 2700]) @@
    (46 :> [min |-> 400, max |-> 1200]) @@ (47 :> [min |-> 800, max |-> 1600])

\* CV_BOUNDS, the rows of the pressure, thermal and servo CVs: (min, max)
CV_BOUNDS ==
    (32 :> [min |-> 700, max |-> 2070]) @@ (35 :> [min |-> 1000, max |-> 2200]) @@
    (41 :> [min |-> 600, max |-> 850]) @@ (42 :> [min |-> 1000, max |-> 1200]) @@
    (43 :> [min |-> 2400, max |-> 2700]) @@
    (46 :> [min |-> 400, max |-> 1200]) @@ (47 :> [min |-> 800, max |-> 1600])

\* CV_DEFAULTS as load_cvs() returns them (integer keys), the same rows
CV_DEFAULTS ==
    (32 :> 1240) @@ (35 :> 2070) @@ (41 :> CV41 * 10) @@ (42 :> CV42 * 10) @@
    (43 :> CV43 * 10) @@ (46 :> CV46 * 10) @@ (47 :> CV47 * 10)

\* float(new_value): ok is FALSE when float() raises ValueError; nan marks
\* the float nan, which compares FALSE with everything
float(new_value) ==
    CASE new_value = "abc" -> [ok |-> FALSE, nan |-> FALSE, v |-> 0]
      [] new_value = "nan" -> [ok |-> TRUE, nan |-> TRUE, v |-> 0]
      [] new_value = "69.9" -> [ok |-> TRUE, nan |-> FALSE, v |-> 699]
      [] new_value = "70" -> [ok |-> TRUE, nan |-> FALSE, v |-> 700]
      [] new_value = "85" -> [ok |-> TRUE, nan |-> FALSE, v |-> 850]
      [] new_value = "1e2" -> [ok |-> TRUE, nan |-> FALSE, v |-> 1000]
      [] new_value = "120" -> [ok |-> TRUE, nan |-> FALSE, v |-> 1200]
      [] new_value = "207.0" -> [ok |-> TRUE, nan |-> FALSE, v |-> 2070]
      [] new_value = "220" -> [ok |-> TRUE, nan |-> FALSE, v |-> 2200]
      [] new_value = "240" -> [ok |-> TRUE, nan |-> FALSE, v |-> 2400]
      [] new_value = "270" -> [ok |-> TRUE, nan |-> FALSE, v |-> 2700]
      [] new_value = "270.1" -> [ok |-> TRUE, nan |-> FALSE, v |-> 2701]

\* a validation that skips the bounds check
validate_and_update_cv_NoBounds(cv_num, new_value, table) ==
    IF cv_num \notin DOMAIN CV_BOUNDS \/ ~float(new_value).ok
    THEN [ok |-> FALSE, table |-> table]
    ELSE [ok |-> TRUE, table |-> [table EXCEPT ![cv_num] = float(new_value).v]]

\* validate_and_update_cv(cv_num, new_value, cv_table): [ok, table afterwards]
validate_and_update_cv(cv_num, new_value, table) ==
    IF cv_num \notin DOMAIN CV_BOUNDS
    THEN [ok |-> FALSE, table |-> table]
    ELSE LET b == CV_BOUNDS[cv_num]
             parsed == float(new_value)
         IN IF ~parsed.ok
            THEN [ok |-> FALSE, table |-> table]
            ELSE IF parsed.nan \/ ~(b.min <= parsed.v /\ parsed.v <= b.max)
            THEN [ok |-> FALSE, table |-> table]
            ELSE [ok |-> TRUE, table |-> [table EXCEPT ![cv_num] = parsed.v]]

\* ---------------------------------------------------------------------------
\* BLE_UART (app/ble_uart.py).  A byte is a one-character string; "0xFF" is
\* a byte that is not valid UTF-8.
\* ---------------------------------------------------------------------------
MAX_RX_BUFFER == 128
MAX_RX_QUEUE == 16

\* BLE_UART.__init__: empty accumulation buffer and command queue
BleInit == [rx_buffer |-> <<>>, rx_queue |-> <<>>]

\* index of the first newline of buf, 0 when there is none (bytearray.index)
NewlineIndex(buf) ==
    IF \E i \in 1..Len(buf) : buf[i] = "\n"
    THEN CHOOSE i \in 1..Len(buf) :
            buf[i] = "\n" /\ \A j \in 1..(i - 1) : buf[j] # "\n"
    ELSE 0

IsSpace(c) == c \in {" ", "\r", "\t"}

RECURSIVE strip(_)
\* str.strip(): leading and trailing whitespace removed
strip(str) ==
    IF str = <<>> THEN <<>>
    ELSE IF IsSpace(Head(str)) THEN strip(Tail(str))
    ELSE IF IsSpace(str[Len(str)]) THEN strip(SubSeq(str, 1, Len(str) - 1))
    ELSE str

RECURSIVE ExtractCommands(_, _)
\* the while loop of _on_rx on (buffer, queue): [rx_buffer, rx_queue]
ExtractCommands(buf, queue) ==
    LET newline_index == NewlineIndex(buf)
    IN IF newline_index = 0
       THEN [rx_buffer |-> buf, rx_queue |-> queue]
       ELSE LET command_bytes == SubSeq(buf, 1, newline_index - 1)
                rest == SubSeq(buf, newline_index + 1, Len(buf))
                valid == \A i \in 1..Len(command_bytes) : command_bytes[i] # "0xFF"
                command_str == strip(command_bytes)
            IN IF valid /\ command_str # <<>> /\ Len(queue) < MAX_RX_QUEUE
               THEN ExtractCommands(rest, Append(queue, command_str))
               ELSE ExtractCommands(rest, queue)

\* an _on_rx that accumulates without the 128-byte cap
on_rx_NoCap(b, data) ==
    IF data = <<>> THEN b
    ELSE ExtractCommands(b.rx_buffer \o data, b.rx_queue)

\* BLE_UART._on_rx with gatts_read returning data
on_rx(b, data) ==
    IF data = <<>> THEN b
    ELSE LET extended == b.rx_buffer \o data
             kept == IF Len(extended) > MAX_RX_BUFFER
                     THEN SubSeq(extended, Len(extended) - MAX_RX_BUFFER + 1, Len(extended))
                     ELSE extended
         IN ExtractCommands(kept, b.rx_queue)

\* ---------------------------------------------------------------------------
\* Locomotive (app/main.py)
\* ---------------------------------------------------------------------------

\* Locomotive.log_event: the event buffer afterwards
log_event(buf, event_type, data, t) ==
    LET b == Append(buf, [type |-> event_type, data |-> data, t |-> t])
    IN IF Len(b) > EVENT_BUFFER_SIZE
       THEN SubSeq(b, Len(b) - EVENT_BUFFER_SIZE + 1, Len(b))
       ELSE b

\* Whether the FileWriteQueue that run() gives the Locomotive has the method
\* enqueue that die() calls: main.FileWriteQueue defines only queue and
\* process, so the call raises AttributeError inside die's try/except.
FileWriteQueueHasEnqueue == FALSE

\* The duty left on the servo pin after a sequence of writes
ServoAfter(d, writes) == IF writes = <<>> THEN d ELSE writes[Len(writes)]

RECURSIVE ServoFx(_)
\* The servo writes of one update() as entries of the effect trace
ServoFx(writes) ==
    IF writes = <<>> THEN <<>>
    ELSE <<[op |-> "servo", v |-> Head(writes)]>> \o ServoFx(Tail(writes))

\* The bookkeeping common to every entry into Locomotive.die
EnterDie(cause, force_close_only, ret) ==
    /\ dieCtx' = [cause |-> cause, force_close_only |-> force_close_only, ret |-> ret]
    /\ dieLog' = Append(dieLog, cause)
    /\ fx' = <<>>
    /\ pc' = "die_heaters"

\* ---------------------------------------------------------------------------
\* SpecWd: Watchdog + is_active under an arbitrary environment
\* ---------------------------------------------------------------------------

NoCheck == [n |-> 0, mode |-> "NOMINAL", latched |-> FALSE,
            t_logic |-> 0, t_boiler |-> 0, t_super |-> 0, dies |-> <<>>,
            lastOkPwr |-> 0, lastOkDcc |-> 0, failedMax |-> 0]

NoCall == [op |-> "none"]

NoDie == [cause |-> "", force_close_only |-> FALSE, ret |-> ""]

ObsInit == [died |-> FALSE, diedPrev |-> FALSE, wdtDone |-> FALSE,
            earlyWrite |-> FALSE, speedAfterDie |-> FALSE, heatOn |-> FALSE,
            failedAtCheck |-> 0, openPrev |-> FALSE]

\* Locomotive.__init__ and the locals of run() before the first iteration,
\* all constructed at ticks_ms() = 0
LocoInit ==
    /\ now = 0
    /\ wd = WatchdogInit(0)
    /\ last_valid = 0
    /\ dcc = [current_speed |-> 0, direction |-> 1, e_stop |-> FALSE]
    /\ cache = [temps |-> <<25, 25, 25>>, pressure |-> 0, track_v |-> 0, last_update |-> 0]
    /\ sensors = [cached_temps |-> <<25, 25, 25>>, failed_sensor_count |-> 0]
    /\ mech = MechInit(0)
    /\ servoDuty = CV46
    /\ boilerDuty = 0
    /\ superDuty = 0
    /\ act = [boiler_pwm |-> 0, superheater_pwm |-> 0]
    /\ pm = PmInit
    /\ sm = 0
    /\ event_buffer = <<>>
    /\ file_queue = <<>>
    /\ loop = [loop_start |-> 0, last_encoder_time |-> 0, temps |-> <<25, 25, 25>>,
               track_v |-> 0, pressure |-> 0, time_ms |-> 0, dcc_speed |-> 0]
    /\ ticks = 0
    /\ envEvents = 0
    /\ advances = 0
    /\ dieLog = <<>>
    /\ chk = NoCheck
    /\ dieCtx = NoDie
    /\ fx = <<>>
    /\ obs = ObsInit
    /\ cv_table = CV_DEFAULTS
    /\ ble = BleInit

InitWd ==
    /\ LocoInit
    /\ call = NoCall
    /\ pc = "env"

\* The clock moves on
Advance ==
    /\ pc = "env"
    /\ advances < MaxAdvances
    /\ \E d \in Steps : now' = now + d
    /\ advances' = advances + 1
    /\ UNCHANGED <<wd, last_valid, dieLog, chk>>
    /\ UNCHANGED loopVars

\* A packet for this address is decoded (dcc_decoder.py:194)
PacketDecoded ==
    /\ pc \in {"env", "tick"}
    /\ last_valid # now
    /\ last_valid' = now
    /\ UNCHANGED <<now, advances, wd, dieLog, chk>>
    /\ UNCHANGED loopVars

\* Watchdog.check_sensor_health(sensors, cv) with sensors.failed_sensor_count = fc
SensorHealth ==
    /\ pc = "env"
    /\ \E fc \in FailedCounts :
          /\ wd' = check_sensor_health(wd, fc, now)
          /\ chk' = [chk EXCEPT !.failedMax = Max(@, fc)]
    /\ UNCHANGED <<now, advances, last_valid, dieLog>>
    /\ UNCHANGED loopVars

\* Watchdog.check(..., dcc.is_active(), cv, loco) with a loco whose die returns
Check ==
    /\ pc = "env"
    /\ \E tl \in LogicTemps, tb \in BoilerTemps, ts \in SuperTemps, tv \in TrackVolts :
        LET active == is_active(last_valid, now)
            r == check(wd, tl, tb, ts, tv, active, now, TRUE)
        IN /\ wd' = r.w
           /\ dieLog' = dieLog \o r.dies
           /\ chk' = [n |-> 1, mode |-> wd.mode, latched |-> wd.shutdown_in_progress,
                      t_logic |-> tl, t_boiler |-> tb, t_super |-> ts,
                      dies |-> r.dies,
                      lastOkPwr |-> IF tv >= TRACK_V_MIN THEN now ELSE chk.lastOkPwr,
                      lastOkDcc |-> IF active THEN now ELSE chk.lastOkDcc,
                      failedMax |-> chk.failedMax]
           /\ UNCHANGED <<now, advances, last_valid>>
           /\ UNCHANGED loopVars

NextWd == Advance \/ PacketDecoded \/ SensorHealth \/ Check

SpecWd == InitWd /\ [][NextWd]_vars

\* ---- claims checked under SpecWd ----

\* C1: over the lifetime of one Watchdog instance, Watchdog.check calls the
\* shutdown routine (die) at most once, whatever the sequence of check()
\* inputs, several fault vectors tripped in one check() included.
C1_AtMostOneDie == Len(dieLog) <= 1

SignalCauses == {"PWR_LOSS", "DCC_LOST"}

\* C3 (as stated): in DEGRADED mode only the failed channel's thermal check is
\* skipped, so a check() that is not latched and sees all three temperatures
\* above their limits (at least two of them on healthy channels) invokes
\* shutdown in that same call.
C3_DegradedStillChecksHealthy ==
    (chk.n = 1 /\ chk.mode = "DEGRADED" /\ ~chk.latched
        /\ chk.t_logic > CV41 /\ chk.t_boiler > CV42 /\ chk.t_super > CV43)
    => chk.dies # <<>>

\* C3 (amended): in DEGRADED mode check() skips the thermal checks of all
\* three channels; the only causes it can pass to die are the signal timers'
\* PWR_LOSS and DCC_LOST.
C3_DegradedSkipsAllThermal ==
    (chk.n = 1 /\ chk.mode = "DEGRADED")
    => \A i \in 1..Len(chk.dies) : chk.dies[i] \in SignalCauses

\* A DEGRADED, unlatched check() saw the boiler above CV42 and did not shut down
C3_Witness ==
    /\ chk.n = 1 /\ chk.mode = "DEGRADED" /\ ~chk.latched
    /\ chk.t_boiler > CV42
    /\ chk.dies = <<>>

\* The causes the check() taken in this step has passed to die
NewDies == SubSeq(dieLog', Len(dieLog) + 1, Len(dieLog'))

\* C11: the loss timers restart whenever the signal is seen healthy: a
\* check() invokes PWR_LOSS (resp. DCC_LOST) only when every check() over
\* the last CV45*100 ms (resp. CV44*100 ms) and more, this one included, has
\* seen track voltage < 1500 mV (resp. DCC inactive); chk.lastOkPwr and
\* chk.lastOkDcc are the times of the last check() that saw the signal
\* healthy (the construction time before any).
C11_TimersRestartOnRecovery ==
    [][\A i \in 1..Len(NewDies) :
          /\ NewDies[i] = "PWR_LOSS" => now - chk'.lastOkPwr > CV45 * 100
          /\ NewDies[i] = "DCC_LOST" => now - chk'.lastOkDcc > CV44 * 100]_vars

\* PWR_LOSS was invoked after a recovery: the voltage was seen healthy by a
\* check() after construction, and then low for longer than CV45*100 ms
C11_Witness ==
    /\ dieLog = <<"PWR_LOSS">>
    /\ chk.lastOkPwr > 0
    /\ chk.dies = <<"PWR_LOSS">>
    /\ now - chk.lastOkPwr > CV45 * 100

\* C13: a DEGRADED mode that has lasted more than CV88 seconds ends in a
\* shutdown with cause SENSOR_DEGRADED_TIMEOUT; the cause
\* MULTIPLE_SENSORS_FAILED is used only when two or more sensors have failed
\* (chk.failedMax is the largest failed_sensor_count the health update saw).
C13_DegradedTimeoutCause ==
    (\E i \in 1..Len(dieLog) : dieLog[i] = "MULTIPLE_SENSORS_FAILED")
    => chk.failedMax >= 2

\* C9: in NOMINAL mode an unlatched check() that sees logic > CV41, boiler >
\* CV42 or superheater > CV43 invokes shutdown in that same call, exactly
\* once, with cause LOGIC_HOT, DRY_BOIL or SUPER_HOT, the first exceeded
\* limit in that order deciding the cause.
C9_NominalThermalCause ==
    (chk.n = 1 /\ chk.mode = "NOMINAL" /\ ~chk.latched)
    => /\ (chk.t_logic > CV41) => chk.dies = <<"LOGIC_HOT">>
       /\ (chk.t_logic <= CV41 /\ chk.t_boiler > CV42) => chk.dies = <<"DRY_BOIL">>
       /\ (chk.t_logic <= CV41 /\ chk.t_boiler <= CV42 /\ chk.t_super > CV43)
            => chk.dies = <<"SUPER_HOT">>

\* A NOMINAL check() with logic below and boiler above its limit died DRY_BOIL
\* at the very instant the Watchdog was constructed (no time elapsed)
C9_Witness ==
    /\ chk.n = 1 /\ chk.mode = "NOMINAL" /\ ~chk.latched
    /\ chk.t_logic <= CV41 /\ chk.t_boiler > CV42 /\ chk.t_super > CV43
    /\ chk.dies = <<"DRY_BOIL">>
    /\ now = 0

\* C37: CRITICAL is absorbing: while no shutdown has been invoked, a step
\* taken in mode CRITICAL, a sensor-health update included, leaves the mode
\* CRITICAL.
C37_CriticalAbsorbing ==
    [][(wd.mode = "CRITICAL" /\ dieLog = <<>>) => wd'.mode = "CRITICAL"]_vars

\* ---------------------------------------------------------------------------
\* SpecTick: the watchdog path of run(), one check() per 20 ms tick
\* ---------------------------------------------------------------------------

InitTick ==
    /\ LocoInit
    /\ call = NoCall
    /\ pc = "tick"

\* main.py:504-525 and 558-561 with nothing slowing the tick: the cached
\* temperatures, a track voltage and dcc.is_active() go to Watchdog.check; a
\* shutdown ends in machine.deepsleep(), otherwise the loop sleeps 20 ms
TickCheck ==
    /\ pc = "tick"
    /\ now <= MaxTickTime
    /\ \E tv \in TrackVolts :
          LET r == check(wd, cache.temps[3], cache.temps[1], cache.temps[2], tv,
                         is_active(last_valid, now), now, FALSE)
          IN /\ wd' = r.w
             /\ dieLog' = dieLog \o r.dies
             /\ IF r.dies # <<>>
                THEN pc' = "halted" /\ now' = now
                ELSE pc' = pc /\ now' = now + LOOP_MS
    /\ UNCHANGED <<cv_table, ble, call, advances, last_valid, chk, ticks, envEvents, loop, cache,
                   sensors, dcc, mech, servoDuty, boilerDuty, superDuty, act, pm,
                   sm, event_buffer, file_queue, dieCtx, fx, obs>>

NextTick == TickCheck \/ PacketDecoded

SpecTick == InitTick /\ [][NextTick]_vars

\* ---- claims checked under SpecTick ----

\* C10: with CV44 = 5 and no valid DCC packet since boot, the Watchdog
\* invokes shutdown with cause DCC_LOST at the first tick after 500 ms have
\* elapsed since boot, so the loop never gets past the tick at 520 ms.
C10_DccLostAfter500ms ==
    (last_valid = 0 /\ now >= 500 + 2 * LOOP_MS) => dieLog = <<"DCC_LOST">>

\* ---------------------------------------------------------------------------
\* SpecActive: DCCDecoder.is_active() of a decoder built on a CV table with
\* CV44 = call.cv44, asked call.elapsed ms after its last valid packet
\* ---------------------------------------------------------------------------

InitActive ==
    /\ LocoInit
    /\ pc = "call"
    /\ \E c \in CV44_MIN..CV44_MAX, e \in ElapsedTimes :
          call = [op |-> "pending", cv44 |-> c, elapsed |-> e, result |-> FALSE]

\* decoder.is_active() at ticks_ms() = last_valid + elapsed
IsActiveCall ==
    /\ pc = "call"
    /\ call.op = "pending"
    /\ call' = [call EXCEPT !.op = "is_active",
                            !.result = is_active(last_valid, last_valid + call.elapsed)]
    /\ UNCHANGED <<cv_table, ble, now, advances, wd, last_valid, dieLog, chk, pc, ticks, envEvents,
                   loop, cache, sensors, dcc, mech, servoDuty, boilerDuty,
                   superDuty, act, pm, sm, event_buffer, file_queue, dieCtx, fx, obs>>

NextActive == IsActiveCall

SpecActive == InitActive /\ [][NextActive]_vars

\* ---- claims checked under SpecActive ----

\* C12: is_active() returns true if and only if the time since the last
\* valid packet is strictly less than CV44 * 100 ms, for every CV44 in 5..100.
C12_ActiveIffWithinCV44 ==
    (call.op = "is_active")
    => (call.result <=> call.elapsed < call.cv44 * 100)

\* ---------------------------------------------------------------------------
\* SpecPressure: PressureManager.process called on its own.  The manager
\* starts as constructed (pressure sensor available) and enters its
\* temperature-only fallback through the except branch (a negative pressure
\* or a non-positive dt); later calls take the fallback branch.  call holds
\* the inputs of the latest call together with the boiler temperature
\* measured at that moment, which process() is not given.
\* ---------------------------------------------------------------------------

InitPressure ==
    /\ LocoInit
    /\ pc = "call"
    /\ call = [op |-> "pending", n |-> 0, psi |-> 0, dt |-> 0,
               t_boiler |-> 0, t_super |-> 0, degraded |-> FALSE]

\* pm.process(psi, regulator_open, t_super, dt) on the real Actuators
PressureCall ==
    /\ pc = "call"
    /\ call.n < MaxCalls
    /\ \E psi \in PsiInputs, dt \in DtInputs, tb \in BoilerTemps, ts \in SuperTemps,
          ro \in BOOLEAN :
          LET r == process(pm, psi, ro, ts, dt)
          IN /\ pm' = r.pm
             /\ act' = [boiler_pwm |-> ClampDuty(r.boiler),
                        superheater_pwm |-> ClampDuty(r.super)]
             /\ boilerDuty' = ClampDuty(r.boiler)
             /\ superDuty' = ClampDuty(r.super)
             /\ call' = [op |-> "process", n |-> call.n + 1, psi |-> psi, dt |-> dt,
                         t_boiler |-> tb, t_super |-> ts,
                         degraded |-> ~r.pm.available]
    /\ UNCHANGED <<cv_table, ble, now, advances, wd, last_valid, dieLog, chk, pc, ticks, envEvents,
                   loop, cache, sensors, dcc, mech, servoDuty, sm, event_buffer,
                   file_queue, dieCtx, fx, obs>>

NextPressure == PressureCall

SpecPressure == InitPressure /\ [][NextPressure]_vars

\* ---- claims checked under SpecPressure ----

\* C17: with the pressure sensor unavailable the heater duties depend only on
\* the measured temperatures: the boiler duty is 0 when the measured boiler
\* temperature is at or above CV42 - 5 and about 30 % of 1023 otherwise, the
\* superheater duty is 0 when the measured superheater temperature is at or
\* above CV43 and about 25 % of 1023 otherwise.
C17_FallbackFollowsTemperatures ==
    (call.op = "process" /\ call.degraded)
    => /\ boilerDuty = (IF call.t_boiler >= CV42 - 5 THEN 0 ELSE BOILER_30)
       /\ superDuty = (IF call.t_super >= CV43 THEN 0 ELSE SUPER_25)

\* ---------------------------------------------------------------------------
\* SpecPower: PowerManager.process called on its own on the real Actuators,
\* for a power budget CV51 = call.budget mA.  Between calls the heater
\* duties are set through Actuators, as PressureManager does.  An exception
\* leaving process() ends the caller (pc = "crashed").
\* ---------------------------------------------------------------------------

InitPower ==
    /\ LocoInit
    /\ pc = "call"
    /\ \E b \in BudgetInputs :
          call = [op |-> "pending", n |-> 0, budget |-> b,
                  before |-> [boiler_pwm |-> 0, superheater_pwm |-> 0],
                  step |-> 0, raised |-> FALSE]

\* actuators.set_boiler_duty(b); actuators.set_superheater_duty(s)
HeaterWrite ==
    /\ pc = "call"
    /\ \E b \in BoilerDuties, s \in SuperDuties :
          /\ act' = [boiler_pwm |-> ClampDuty(b), superheater_pwm |-> ClampDuty(s)]
          /\ boilerDuty' = ClampDuty(b)
          /\ superDuty' = ClampDuty(s)
    /\ call' = [call EXCEPT !.op = "pending"]
    /\ UNCHANGED <<cv_table, ble, now, advances, wd, last_valid, dieLog, chk, pc, ticks, envEvents,
                   loop, cache, sensors, dcc, mech, servoDuty, pm, sm, event_buffer,
                   file_queue, dieCtx, fx, obs>>

\* power_manager.process()
PowerCall ==
    /\ pc = "call"
    /\ call.n < MaxCalls
    /\ LET r == PowerManagerProcess(call.budget, act)
       IN /\ act' = [boiler_pwm |-> r.boiler_pwm, superheater_pwm |-> r.superheater_pwm]
          /\ boilerDuty' = IF r.step > 0 THEN r.boiler_pwm ELSE boilerDuty
          /\ superDuty' = IF r.step > 0 THEN r.superheater_pwm ELSE superDuty
          /\ call' = [call EXCEPT !.op = "power", !.n = @ + 1, !.before = act,
                                  !.step = r.step, !.raised = r.raised]
          /\ pc' = IF r.raised THEN "crashed" ELSE "call"
    /\ UNCHANGED <<cv_table, ble, now, advances, wd, last_valid, dieLog, chk, ticks, envEvents,
                   loop, cache, sensors, dcc, mech, servoDuty, pm, sm, event_buffer,
                   file_queue, dieCtx, fx, obs>>

NextPower == HeaterWrite \/ PowerCall

SpecPower == InitPower /\ [][NextPower]_vars

\* ---- claims checked under SpecPower ----

\* The total current of the specification for heater duties b and s with the
\* servo idle, times 1023 mA: 5 A * b/1023 + 3 A * s/1023 + 0.05 A + 0.1 A
TotalCurrent(b, s) == 5000 * b + 3000 * s + 150 * PWM_MAX

C20_BudgetShutdown ==
    (call.op = "power" /\ call.step = 4)
    => /\ boilerDuty = 0 /\ superDuty = 0
       /\ \E i \in 1..Len(event_buffer) :
             /\ event_buffer[i].type = "SHUTDOWN"
             /\ event_buffer[i].data = "POWER_BUDGET_EXCEEDED"
       /\ ~call.raised

\* ---------------------------------------------------------------------------
\* SpecConfig: any sequence of validate_and_update_cv calls on the default
\* CV table
\* ---------------------------------------------------------------------------

InitConfig ==
    /\ LocoInit
    /\ pc = "call"
    /\ call = [op |-> "pending", cv_num |-> 0, new_value |-> "", ok |-> FALSE,
               before |-> CV_DEFAULTS]

\* validate_and_update_cv(n, s, cv_table)
ValidateCall ==
    /\ pc = "call"
    /\ \E n \in CvNumbers, s \in ValueStrings :
          LET r == validate_and_update_cv(n, s, cv_table)
          IN /\ cv_table' = r.table
             /\ call' = [op |-> "validate", cv_num |-> n, new_value |-> s,
                         ok |-> r.ok, before |-> cv_table]
    /\ UNCHANGED <<ble, now, advances, wd, last_valid, dieLog, chk, pc, ticks, envEvents,
                   loop, cache, sensors, dcc, mech, servoDuty, boilerDuty, superDuty,
                   act, pm, sm, event_buffer, file_queue, dieCtx, fx, obs>>

NextConfig == ValidateCall

SpecConfig == InitConfig /\ [][NextConfig]_vars

\* ---- claims checked under SpecConfig ----

\* C24: after any sequence of validate_and_update_cv calls on the default
\* table, the target pressure CV32 is at most the maximum boiler pressure CV35
\* minus the 15 kPa margin.
C24_TargetBelowMaxMinusMargin ==
    cv_table[32] <= cv_table[35] - PRESSURE_MARGIN_KPA

\* C25: after any sequence of validate_and_update_cv calls on the default
\* table, the thermal limits satisfy CV41 < CV42 < CV43.
C25_ThermalOrdering ==
    cv_table[41] < cv_table[42] /\ cv_table[42] < cv_table[43]

\* the limits updated to the closest values the bounds allow
C25_Witness ==
    /\ call.op = "validate" /\ call.ok
    /\ cv_table[41] = 850 /\ cv_table[42] = 1000 /\ cv_table[43] = 2400

DecoderInit(cfg) ==
    [long_addr |-> cfg.long_addr, addr |-> cfg.addr, current_speed |-> 0,
     direction |-> 1, whistle |-> FALSE, e_stop |-> FALSE, last_valid |-> 0]

InitDcc ==
    /\ LocoInit
    /\ pc = "call"
    /\ \E cfg \in Decoders :
          call = [op |-> "pending", n |-> 0, t |-> 0, bytes |-> <<>>,
                  dec |-> DecoderInit(cfg), before |-> DecoderInit(cfg)]

\* the edge handler has collected the bits of a packet and runs _decode_packet
DecodeCall ==
    /\ pc = "call"
    /\ call.n < MaxPackets
    /\ \E bytes \in DccPackets :
          LET t == call.t + PACKET_GAP_MS
          IN call' = [op |-> "decode", n |-> call.n + 1, t |-> t, bytes |-> bytes,
                      dec |-> decode_packet(call.dec, PacketBits(bytes), t),
                      before |-> call.dec]
    /\ UNCHANGED <<cv_table, ble, now, advances, wd, last_valid, dieLog, chk, pc, ticks,
                   envEvents, loop, cache, sensors, dcc, mech, servoDuty, boilerDuty,
                   superDuty, act, pm, sm, event_buffer, file_queue, dieCtx, fx, obs>>

NextDcc == DecodeCall

SpecDcc == InitDcc /\ [][NextDcc]_vars

\* ---- claims checked under SpecDcc ----

\* the address a packet on the track carries: two bytes when the first byte
\* is 11xxxxxx, one byte otherwise
PacketAddress(bytes) ==
    IF bytes[1] \div 64 = 3
    THEN [long_addr |-> TRUE, addr |-> (bytes[1] % 64) * 256 + bytes[2]]
    ELSE [long_addr |-> FALSE, addr |-> bytes[1]]

\* C28: a decoded packet whose address differs from the configured address
\* changes none of current_speed, direction, whistle and e_stop and does not
\* refresh last_valid.
C28_ForeignPacketIgnored ==
    (/\ call.op = "decode"
     /\ PacketAddress(call.bytes) # [long_addr |-> call.dec.long_addr, addr |-> call.dec.addr])
    => call.dec = call.before

\* a speed packet for locomotive 4 reached the decoder of locomotive 3 after
\* one of its own
C28_Witness ==
    /\ call.op = "decode" /\ call.bytes = <<4, 127, 123>>
    /\ ~call.dec.long_addr /\ call.dec.addr = 3
    /\ call.dec.last_valid = PACKET_GAP_MS /\ call.t = 2 * PACKET_GAP_MS
    /\ call.dec.current_speed = 0 /\ call.dec.direction = 0

\* ---------------------------------------------------------------------------
\* SpecRx: BLE writes delivered to _on_rx one after the other
\* ---------------------------------------------------------------------------

\* eight one-byte commands in one write
EightCommands ==
    <<"1", "\n", "2", "\n", "3", "\n", "4", "\n", "5", "\n", "6", "\n", "7", "\n", "8", "\n">>

\* what one gatts_read returns: 70 bytes without a newline, 69 bytes and a
\* newline, a short command line, a line with an invalid byte, a padded line,
\* eight commands at once
RxWrites ==
    {[i \in 1..70 |-> "a"], EightCommands,
     [i \in 1..70 |-> IF i = 70 THEN "\n" ELSE "a"],
     <<"C", "V", "4", "1", "=", "7", "0", "\n">>,
     <<"C", "V", "0xFF", "\n">>,
     <<" ", "C", "V", "\r", "\n">>}

InitRx ==
    /\ LocoInit
    /\ pc = "call"
    /\ call = [op |-> "pending", n |-> 0, sent |-> <<>>, data |-> <<>>, before |-> BleInit]

\* ble_uart.py:200-201: one _IRQ_GATTS_WRITE event; call.sent is every byte
\* the peer has written so far
RxCall ==
    /\ pc = "call"
    /\ call.n < MaxPackets
    /\ \E data \in RxWrites :
          /\ ble' = on_rx(ble, data)
          /\ call' = [op |-> "rx", n |-> call.n + 1, sent |-> call.sent \o data,
                       data |-> data, before |-> ble]
    /\ UNCHANGED <<cv_table, now, advances, wd, last_valid, dieLog, chk, pc, ticks,
                   envEvents, loop, cache, sensors, dcc, mech, servoDuty, boilerDuty,
                   superDuty, act, pm, sm, event_buffer, file_queue, dieCtx, fx, obs>>

NextRx == RxCall

SpecRx == InitRx /\ [][NextRx]_vars

\* ---- claims checked under SpecRx ----

\* C31: after every RX event the line buffer holds at most 128 bytes and the
\* queue at most 16 commands; a write that arrives when 16 commands are queued
\* leaves those 16 and their order as they were.
C31_BufferAndQueueBounded ==
    call.op = "rx" =>
        /\ Len(ble.rx_buffer) <= MAX_RX_BUFFER
        /\ Len(ble.rx_queue) <= MAX_RX_QUEUE
        /\ Len(call.before.rx_queue) = MAX_RX_QUEUE => ble.rx_queue = call.before.rx_queue

\* eight more commands have arrived while 16 were queued
C31_Witness ==
    /\ call.op = "rx" /\ call.data = EightCommands
    /\ Len(call.before.rx_queue) = MAX_RX_QUEUE
    /\ ble.rx_queue = call.before.rx_queue

RECURSIVE SentLines(_)
\* the complete lines of a byte stream, newline removed
SentLines(stream) ==
    LET newline_index == NewlineIndex(stream)
    IN IF newline_index = 0 THEN {}
       ELSE {SubSeq(stream, 1, newline_index - 1)}
            \cup SentLines(SubSeq(stream, newline_index + 1, Len(stream)))

\* C30: a line of more than 128 bytes is dropped as a whole; every queued
\* command is one complete line the peer sent (whitespace stripped) that fits
\* the 128-byte buffer, never a fragment of a longer line.
C30_OnlyWholeLinesQueued ==
    call.op = "rx" =>
        \A i \in 1..Len(ble.rx_queue) :
            \E l \in SentLines(call.sent) :
                /\ Len(l) <= MAX_RX_BUFFER
                /\ ble.rx_queue[i] = strip(l)

\* ---------------------------------------------------------------------------
\* SpecServo: set_goal and update of one MechanicalMapper, emergency_mode off
\* ---------------------------------------------------------------------------

\* regulator requests in 1/127 percent: closed, 10 %, 50 %, 100 %
ServoGoals == {0, 1270, 6350, 12700}
\* ms between the end of one update and the start of the next
UpdateGaps == {20, 400, 2500}

InitServo ==
    /\ LocoInit
    /\ pc = "call"
    /\ call = [op |-> "pending", n |-> 0, t |-> 0, before |-> mech, writes |-> <<>>]

\* servo.py:86-96: set_goal(percent, whistle, cv) stores the target
ServoGoal ==
    /\ pc = "call"
    /\ \E reg \in ServoGoals, whistle \in BOOLEAN :
          mech' = [mech EXCEPT !.target = set_goal(reg, whistle)]
    /\ call' = [call EXCEPT !.op = "goal"]
    /\ UNCHANGED <<cv_table, ble, now, advances, wd, last_valid, dieLog, chk, pc, ticks,
                   envEvents, loop, cache, sensors, dcc, servoDuty, boilerDuty,
                   superDuty, act, pm, sm, event_buffer, file_queue, dieCtx, fx, obs>>

\* servo.py:54-84: update(cv) entered at time call.t; now is the time it returns
ServoUpdate ==
    /\ pc = "call"
    /\ call.n < MaxUpdates
    /\ \E gap \in UpdateGaps :
          LET t == now + gap
              r == update(mech, t)
          IN /\ mech' = r.m
             /\ servoDuty' = ServoAfter(servoDuty, r.writes)
             /\ now' = t + r.slept
             /\ call' = [op |-> "update", n |-> call.n + 1, t |-> t, before |-> mech,
                         writes |-> r.writes]
    /\ UNCHANGED <<cv_table, ble, advances, wd, last_valid, dieLog, chk, pc, ticks,
                   envEvents, loop, cache, sensors, dcc, boilerDuty, superDuty, act, pm,
                   sm, event_buffer, file_queue, dieCtx, fx, obs>>

NextServo == ServoGoal \/ ServoUpdate

SpecServo == InitServo /\ [][NextServo]_vars

\* ---- claims checked under SpecServo ----

IsrPackets == {<<3, 127, 124>>, <<3, 74, 73>>, <<3, 64, 67>>, <<3, 144, 147>>}

\* the (current_speed, direction) pair a decoder holds
SpeedPair(d) == [current_speed |-> d.current_speed, direction |-> d.direction]

InitIsr ==
    /\ LocoInit
    /\ pc = "rd_direction"
    /\ LET d == DecoderInit([long_addr |-> FALSE, addr |-> 3])
       IN call = [op |-> "pending", n |-> 0, t |-> 0, dec |-> d, seen |-> {SpeedPair(d)},
                  direction |-> 0, dcc_speed |-> 0, arg |-> 0]

\* dcc_decoder.py:90,131-134: the pin interrupt completes a packet and runs
\* _decode_packet to its end before the foreground continues; call.seen is
\* every (current_speed, direction) pair the decoder has held
EdgeIsr ==
    /\ call.n < MaxPackets
    /\ \E bytes \in IsrPackets :
          LET t == call.t + PACKET_GAP_MS
              d == decode_packet(call.dec, PacketBits(bytes), t)
          IN call' = [call EXCEPT !.n = call.n + 1, !.t = t, !.dec = d,
                                  !.seen = call.seen \cup {SpeedPair(d)}]
    /\ UNCHANGED <<cv_table, ble, now, advances, wd, last_valid, dieLog, chk, pc, ticks,
                   envEvents, loop, cache, sensors, dcc, mech, servoDuty, boilerDuty,
                   superDuty, act, pm, sm, event_buffer, file_queue, dieCtx, fx, obs>>

\* main.py:526: the condition of "current_speed if direction else 0"
ReadDirection ==
    /\ pc = "rd_direction"
    /\ call' = [call EXCEPT !.op = "reading", !.direction = call.dec.direction]
    /\ pc' = "rd_speed"
    /\ UNCHANGED <<cv_table, ble, now, advances, wd, last_valid, dieLog, chk, ticks,
                   envEvents, loop, cache, sensors, dcc, mech, servoDuty, boilerDuty,
                   superDuty, act, pm, sm, event_buffer, file_queue, dieCtx, fx, obs>>

\* main.py:526: dcc_speed = loco.dcc.current_speed, or 0 when direction was 0
ReadSpeed ==
    /\ pc = "rd_speed"
    /\ call' = [call EXCEPT !.dcc_speed = IF call.direction # 0
                                         THEN call.dec.current_speed ELSE 0]
    /\ pc' = "rd_arg"
    /\ UNCHANGED <<cv_table, ble, now, advances, wd, last_valid, dieLog, chk, ticks,
                   envEvents, loop, cache, sensors, dcc, mech, servoDuty, boilerDuty,
                   superDuty, act, pm, sm, event_buffer, file_queue, dieCtx, fx, obs>>

\* main.py:528: set_speed(dcc_speed, loco.dcc.direction) reads direction again
CallSetSpeed ==
    /\ pc = "rd_arg"
    /\ call' = [call EXCEPT !.op = "set_speed", !.arg = call.dec.direction]
    /\ pc' = "rd_direction"
    /\ UNCHANGED <<cv_table, ble, now, advances, wd, last_valid, dieLog, chk, ticks,
                   envEvents, loop, cache, sensors, dcc, mech, servoDuty, boilerDuty,
                   superDuty, act, pm, sm, event_buffer, file_queue, dieCtx, fx, obs>>

NextIsr == EdgeIsr \/ ReadDirection \/ ReadSpeed \/ CallSetSpeed

SpecIsr == InitIsr /\ [][NextIsr]_vars

\* ---- claims checked under SpecIsr ----

EdgePackets == {<<3, 127, 124>>, <<3, 120, 120>>, <<3, 64, 64>>}
\* edge spacing in microseconds of a one half-bit, a zero half-bit, a glitch
ONE_US == 58
ZERO_US == 100
GLITCH_US == 80

InitEdge ==
    /\ LocoInit
    /\ pc = "call"
    /\ LET d == DecoderInit([long_addr |-> FALSE, addr |-> 3])
       IN call = [op |-> "idle", n |-> 0, t |-> 0, dec |-> d, before |-> d, bits |-> <<>>,
                  bytes |-> <<>>, pending |-> <<>>, runs |-> <<>>]

\* the command station starts a packet while the bit buffer is empty
StartPacket ==
    /\ pc = "call"
    /\ call.pending = <<>> /\ call.bits = <<>>
    /\ call.n < MaxPackets
    /\ \E bytes \in EdgePackets :
          call' = [call EXCEPT !.op = "start", !.n = call.n + 1, !.t = call.t + PACKET_GAP_MS,
                               !.before = call.dec, !.bytes = bytes,
                               !.pending = PacketBits(bytes), !.runs = <<>>]
    /\ UNCHANGED <<cv_table, ble, now, advances, wd, last_valid, dieLog, chk, pc, ticks,
                   envEvents, loop, cache, sensors, dcc, mech, servoDuty, boilerDuty,
                   superDuty, act, pm, sm, event_buffer, file_queue, dieCtx, fx, obs>>

\* dcc_decoder.py:119-134: the edge of the next bit of the packet; call.runs
\* lists the buffer lengths _decode_packet was run on during this packet
PacketEdge ==
    /\ pc = "call"
    /\ call.pending # <<>>
    /\ LET delta == IF Head(call.pending) = 1 THEN ONE_US ELSE ZERO_US
           r == edge_handler(call.dec, call.bits, delta, call.t)
       IN call' = [call EXCEPT !.op = "edge", !.dec = r.dec, !.bits = r.bits,
                               !.pending = Tail(call.pending),
                               !.runs = IF r.ran > 0 THEN Append(call.runs, r.ran)
                                        ELSE call.runs]
    /\ UNCHANGED <<cv_table, ble, now, advances, wd, last_valid, dieLog, chk, pc, ticks,
                   envEvents, loop, cache, sensors, dcc, mech, servoDuty, boilerDuty,
                   superDuty, act, pm, sm, event_buffer, file_queue, dieCtx, fx, obs>>

\* dcc_decoder.py:127-129: an edge with invalid timing between two packets
GlitchEdge ==
    /\ pc = "call"
    /\ call.pending = <<>> /\ call.bits # <<>>
    /\ LET r == edge_handler(call.dec, call.bits, GLITCH_US, call.t)
       IN call' = [call EXCEPT !.op = "glitch", !.dec = r.dec, !.bits = r.bits]
    /\ UNCHANGED <<cv_table, ble, now, advances, wd, last_valid, dieLog, chk, pc, ticks,
                   envEvents, loop, cache, sensors, dcc, mech, servoDuty, boilerDuty,
                   superDuty, act, pm, sm, event_buffer, file_queue, dieCtx, fx, obs>>

NextEdge == StartPacket \/ PacketEdge \/ GlitchEdge

SpecEdge == InitEdge /\ [][NextEdge]_vars

\* ---- claims checked under SpecEdge ----

\* C35: when the last edge of a packet for this decoder has been handled, the
\* parser has run once, on the whole packet, and the decoder holds what the
\* packet says; it was not run on a prefix, nor the buffer cleared after one.
C35_WholePacketParsed ==
    (call.op = "edge" /\ call.pending = <<>>) =>
        /\ call.runs = <<Len(PacketBits(call.bytes))>>
        /\ call.dec = decode_packet(call.before, PacketBits(call.bytes), call.t)

\* ---------------------------------------------------------------------------
\* SpecQueue: background_tasks.FileWriteQueue, enqueue_write and process
\* ---------------------------------------------------------------------------

\* FileWriteQueue.__init__: max_size = 5, _min_interval_ms = 100
QUEUE_MAX_SIZE == 5
MIN_INTERVAL_MS == 100
\* ms between two calls
CallGaps == {50, 100}

\* index of the first entry that is not a priority entry, 0 when there is none
FirstLowPriority(q) ==
    IF \E i \in 1..Len(q) : ~q[i].priority
    THEN CHOOSE i \in 1..Len(q) : ~q[i].priority /\ \A j \in 1..(i - 1) : q[j].priority
    ELSE 0

\* FileWriteQueue.enqueue_write: the queue afterwards
enqueue_write(q, entry) ==
    IF Len(q) >= QUEUE_MAX_SIZE /\ ~entry.priority THEN q
    ELSE LET i == FirstLowPriority(q)
             q1 == IF Len(q) >= QUEUE_MAX_SIZE /\ i # 0
                   THEN SubSeq(q, 1, i - 1) \o SubSeq(q, i + 1, Len(q))
                   ELSE q
         IN IF entry.priority THEN <<entry>> \o q1 ELSE Append(q1, entry)

\* FileWriteQueue.process at time t; write_ok tells whether open/write succeed:
\* [queue, last_write_time]
FileWriteQueueProcess(q, last_write_time, t, write_ok) ==
    IF t - last_write_time < MIN_INTERVAL_MS \/ q = <<>>
    THEN [queue |-> q, last_write_time |-> last_write_time]
    ELSE [queue |-> Tail(q),
          last_write_time |-> IF write_ok THEN t ELSE last_write_time]

InitQueue ==
    /\ LocoInit
    /\ pc = "call"
    /\ call = [op |-> "pending", n |-> 0, t |-> 0, queue |-> <<>>, last_write_time |-> 0]

EnqueueCall ==
    /\ pc = "call"
    /\ call.n < MaxQueueCalls
    /\ \E priority \in BOOLEAN, gap \in CallGaps :
          call' = [call EXCEPT !.op = "enqueue_write", !.n = call.n + 1, !.t = call.t + gap,
                               !.queue = enqueue_write(call.queue,
                                            [id |-> call.n + 1, priority |-> priority])]
    /\ UNCHANGED <<cv_table, ble, now, advances, wd, last_valid, dieLog, chk, pc, ticks,
                   envEvents, loop, cache, sensors, dcc, mech, servoDuty, boilerDuty,
                   superDuty, act, pm, sm, event_buffer, file_queue, dieCtx, fx, obs>>

ProcessCall ==
    /\ pc = "call"
    /\ call.n < MaxQueueCalls
    /\ \E write_ok \in BOOLEAN, gap \in CallGaps :
          LET t == call.t + gap
              r == FileWriteQueueProcess(call.queue, call.last_write_time, t, write_ok)
          IN call' = [op |-> "process", n |-> call.n + 1, t |-> t, queue |-> r.queue,
                      last_write_time |-> r.last_write_time]
    /\ UNCHANGED <<cv_table, ble, now, advances, wd, last_valid, dieLog, chk, pc, ticks,
                   envEvents, loop, cache, sensors, dcc, mech, servoDuty, boilerDuty,
                   superDuty, act, pm, sm, event_buffer, file_queue, dieCtx, fx, obs>>

NextQueue == EnqueueCall \/ ProcessCall

SpecQueue == InitQueue /\ [][NextQueue]_vars

\* ---- claims checked under SpecQueue ----

\* C38: after any sequence of enqueue_write and process calls the queue holds
\* at most max_size (5) entries, whatever their priorities.
C38_QueueBounded == Len(call.queue) <= QUEUE_MAX_SIZE

\* ---------------------------------------------------------------------------
\* SpecServoCv: any sequence of validate_and_update_cv calls for CV46 and CV47
\* on the default CV table
\* ---------------------------------------------------------------------------

\* validate_and_update_cv(n, s, cv_table) for a servo end point
ValidateServoCall ==
    /\ pc = "call"
    /\ \E n \in ServoCvNumbers, s \in ValueStrings :
          LET r == validate_and_update_cv(n, s, cv_table)
          IN /\ cv_table' = r.table
             /\ call' = [op |-> "validate", cv_num |-> n, new_value |-> s,
                         ok |-> r.ok, before |-> cv_table]
    /\ UNCHANGED <<ble, now, advances, wd, last_valid, dieLog, chk, pc, ticks, envEvents,
                   loop, cache, sensors, dcc, mech, servoDuty, boilerDuty, superDuty,
                   act, pm, sm, event_buffer, file_queue, dieCtx, fx, obs>>

NextServoCv == ValidateServoCall

SpecServoCv == InitConfig /\ [][NextServoCv]_vars

\* ---- claims checked under SpecServoCv ----

\* C40: after any sequence of accepted CV updates on the default table the
\* servo neutral CV46 is strictly below the servo maximum CV47.
C40_ServoIntervalNotEmpty == cv_table[46] < cv_table[47]

\* ---------------------------------------------------------------------------
\* Spec: the control loop run() with Locomotive.die
\* ---------------------------------------------------------------------------

Init ==
    /\ LocoInit
    /\ call = NoCall
    /\ pc = "read"

\* main.py:505-516: loop_start, the cached sensor reads, the encoder time delta
ReadSensors ==
    /\ pc = "read"
    /\ ticks < MaxTicks
    /\ ticks' = ticks + 1
    /\ loop' = [loop EXCEPT !.loop_start = now, !.temps = cache.temps,
                            !.track_v = cache.track_v, !.pressure = cache.pressure,
                            !.time_ms = now - loop.last_encoder_time,
                            !.last_encoder_time = now]
    /\ obs' = [ObsInit EXCEPT !.diedPrev = obs.died, !.openPrev = (loop.dcc_speed > 0)]
    /\ pc' = "power"
    /\ UNCHANGED <<cv_table, ble, call, now, advances, wd, last_valid, dieLog, chk, envEvents, cache,
                   sensors, dcc, mech, servoDuty, boilerDuty, superDuty, act, pm,
                   sm, event_buffer, file_queue, dieCtx, fx>>

\* main.py:517: loco.power_manager.process(); an exception it raises ends run()
PowerProcess ==
    /\ pc = "power"
    /\ LET r == power_process(act)
       IN /\ act' = [boiler_pwm |-> r.boiler_pwm, superheater_pwm |-> r.superheater_pwm]
          /\ boilerDuty' = IF r.wrote THEN r.boiler_pwm ELSE boilerDuty
          /\ superDuty' = IF r.wrote THEN r.superheater_pwm ELSE superDuty
          /\ obs' = [obs EXCEPT !.earlyWrite = (obs.earlyWrite \/ r.wrote),
                                !.heatOn = (obs.heatOn \/ (r.wrote /\ r.boiler_pwm > 0))]
          /\ pc' = IF r.shutdown THEN "crashed" ELSE "estop"
    /\ UNCHANGED <<cv_table, ble, call, now, advances, wd, last_valid, dieLog, chk, ticks, envEvents,
                   loop, cache, sensors, dcc, mech, servoDuty, pm, sm, event_buffer,
                   file_queue, dieCtx, fx>>

\* main.py:518-519: the e-stop test and the call die("USER_ESTOP", force_close_only=True)
EStopCheck ==
    /\ pc = "estop"
    /\ IF dcc.e_stop
       THEN /\ EnterDie("USER_ESTOP", TRUE, "estop_clear")
            /\ obs' = [obs EXCEPT !.died = TRUE]
       ELSE /\ pc' = "ble"
            /\ UNCHANGED <<dieCtx, dieLog, fx, obs>>
    /\ UNCHANGED <<cv_table, ble, call, now, advances, wd, last_valid, chk, ticks, envEvents, loop, cache,
                   sensors, dcc, mech, servoDuty, boilerDuty, superDuty, act, pm,
                   sm, event_buffer, file_queue>>

\* main.py:520: loco.dcc.e_stop = False, after die has returned
EStopClear ==
    /\ pc = "estop_clear"
    /\ dcc' = [dcc EXCEPT !.e_stop = FALSE]
    /\ pc' = "ble"
    /\ UNCHANGED <<cv_table, ble, call, now, advances, wd, last_valid, dieLog, chk, ticks, envEvents,
                   loop, cache, sensors, mech, servoDuty, boilerDuty, superDuty,
                   act, pm, sm, event_buffer, file_queue, dieCtx, fx, obs>>

\* main.py:521: loco.process_ble_commands(), which does nothing
ProcessBle ==
    /\ pc = "ble"
    /\ pc' = "wdt"
    /\ UNCHANGED <<cv_table, ble, call, now, advances, wd, last_valid, dieLog, chk, ticks, envEvents,
                   loop, cache, sensors, dcc, mech, servoDuty, boilerDuty,
                   superDuty, act, pm, sm, event_buffer, file_queue, dieCtx, fx, obs>>

\* main.py:522-525: loco.wdt.check(temps[2], temps[0], temps[1], track_v,
\* loco.dcc.is_active(), cv_table, loco); die ends in machine.deepsleep()
WdtCheck ==
    /\ pc = "wdt"
    /\ LET r == check(wd, loop.temps[3], loop.temps[1], loop.temps[2], loop.track_v,
                      is_active(last_valid, now), now, FALSE)
       IN /\ wd' = r.w
          /\ IF r.dies # <<>>
             THEN /\ EnterDie(r.dies[1], FALSE, "speed")
                  /\ obs' = [obs EXCEPT !.wdtDone = TRUE, !.died = TRUE,
                                        !.failedAtCheck = sensors.failed_sensor_count]
             ELSE /\ pc' = "speed"
                  /\ obs' = [obs EXCEPT !.wdtDone = TRUE,
                                        !.failedAtCheck = sensors.failed_sensor_count]
                  /\ UNCHANGED <<dieCtx, dieLog, fx>>
    /\ UNCHANGED <<cv_table, ble, call, now, advances, last_valid, chk, ticks, envEvents, loop, cache,
                   sensors, dcc, mech, servoDuty, boilerDuty, superDuty, act, pm,
                   sm, event_buffer, file_queue>>

\* main.py:526-528: dcc_speed and speed_manager.set_speed(dcc_speed, direction),
\* i.e. _compute_regulator, Actuators.set_regulator -> set_goal, update
SetSpeed ==
    /\ pc = "speed"
    /\ LET dcc_speed == IF dcc.direction # 0 THEN dcc.current_speed ELSE 0
           reg == compute_regulator(sm, dcc_speed)
           m1 == [mech EXCEPT !.target = set_goal(reg, dcc.direction # 0)]
           r == update(m1, now)
       IN /\ sm' = reg
          /\ mech' = r.m
          /\ servoDuty' = ServoAfter(servoDuty, r.writes)
          /\ now' = now + r.slept
          /\ loop' = [loop EXCEPT !.dcc_speed = dcc_speed]
          /\ obs' = [obs EXCEPT !.speedAfterDie = obs.died]
    /\ pc' = "pressure"
    /\ UNCHANGED <<cv_table, ble, call, advances, wd, last_valid, dieLog, chk, ticks, envEvents, cache,
                   sensors, dcc, boilerDuty, superDuty, act, pm, event_buffer,
                   file_queue, dieCtx, fx>>

\* main.py:539-542: pressure_manager.process(pressure, regulator_open,
\* superheater_temp, dt)
PressureProcess ==
    /\ pc = "pressure"
    /\ LET dt == IF loop.time_ms > 0 THEN loop.time_ms ELSE DT_DEFAULT_MS
           r == process(pm, loop.pressure, loop.dcc_speed > 0, loop.temps[2], dt)
       IN /\ pm' = r.pm
          /\ act' = [boiler_pwm |-> ClampDuty(r.boiler),
                     superheater_pwm |-> ClampDuty(r.super)]
          /\ boilerDuty' = ClampDuty(r.boiler)
          /\ superDuty' = ClampDuty(r.super)
          /\ obs' = [obs EXCEPT !.heatOn = (obs.heatOn \/ ClampDuty(r.boiler) > 0
                                                       \/ ClampDuty(r.super) > 0)]
    /\ pc' = "background"
    /\ UNCHANGED <<cv_table, ble, call, now, advances, wd, last_valid, dieLog, chk, ticks, envEvents,
                   loop, cache, sensors, dcc, mech, servoDuty, sm, event_buffer,
                   file_queue, dieCtx, fx>>

\* main.py:552-556: background tasks; file_queue.process() empties the queue,
\* cached_sensors.update_cache() re-reads the sensors once the cache is 100 ms old
Background ==
    /\ pc = "background"
    /\ file_queue' = <<>>
    /\ IF now - cache.last_update < MAX_CACHE_AGE_MS
       THEN UNCHANGED <<cache, sensors>>
       ELSE \E tb \in BoilerTemps, ts \in SuperTemps, tl \in LogicTemps,
               p \in PressureReadings, tv \in TrackVolts, f \in FailedChannels :
               LET r == read_temps(sensors, <<tb, ts, tl>>, f)
               IN /\ sensors' = r.s
                  /\ cache' = [temps |-> r.t, pressure |-> p, track_v |-> tv,
                               last_update |-> now]
    /\ pc' = "sleep"
    /\ UNCHANGED <<cv_table, ble, call, now, advances, wd, last_valid, dieLog, chk, ticks, envEvents,
                   loop, dcc, mech, servoDuty, boilerDuty, superDuty, act, pm, sm,
                   event_buffer, dieCtx, fx, obs>>

\* main.py:559-561: time.sleep_ms(max(1, 20 - elapsed))
SleepTick ==
    /\ pc = "sleep"
    /\ now' = now + Max(1, LOOP_MS - (now - loop.loop_start))
    /\ pc' = "read"
    /\ UNCHANGED <<cv_table, ble, call, advances, wd, last_valid, dieLog, chk, ticks, envEvents, loop,
                   cache, sensors, dcc, mech, servoDuty, boilerDuty, superDuty,
                   act, pm, sm, event_buffer, file_queue, dieCtx, fx, obs>>

\* The foreground is in a blocking sleep (end of tick, or the waits of die)
Sleeping == pc \in {"sleep", "die_cut"}

\* dcc_decoder.py:194-205: the edge interrupt decodes a speed packet for this
\* address while the foreground sleeps
DccPacket ==
    /\ Sleeping
    /\ envEvents < MaxEnvEvents
    /\ envEvents' = envEvents + 1
    /\ \E sp \in DccSpeeds, d \in DccDirections :
          dcc' = [dcc EXCEPT !.current_speed = sp, !.direction = d]
    /\ last_valid' = now
    /\ UNCHANGED <<cv_table, ble, call, now, advances, wd, dieLog, chk, pc, ticks, loop, cache, sensors,
                   mech, servoDuty, boilerDuty, superDuty, act, pm, sm,
                   event_buffer, file_queue, dieCtx, fx, obs>>

\* The e-stop request flag DCCDecoder.e_stop (dcc_decoder.py:86) is raised
\* from outside the loop, which reads and clears it (main.py:518-520)
EStopRequest ==
    /\ pc = "sleep"
    /\ envEvents < MaxEnvEvents
    /\ ~dcc.e_stop
    /\ envEvents' = envEvents + 1
    /\ dcc' = [dcc EXCEPT !.e_stop = TRUE]
    /\ UNCHANGED <<cv_table, ble, call, now, advances, wd, last_valid, dieLog, chk, pc, ticks, loop,
                   cache, sensors, mech, servoDuty, boilerDuty, superDuty, act, pm,
                   sm, event_buffer, file_queue, dieCtx, fx, obs>>

\* main.py:174: self.pressure.shutdown() puts both heater pins to duty 0
DieHeaters ==
    /\ pc = "die_heaters"
    /\ boilerDuty' = 0
    /\ superDuty' = 0
    /\ fx' = Append(fx, [op |-> "heaters", v |-> 0])
    /\ obs' = [obs EXCEPT !.earlyWrite = (obs.earlyWrite \/ ~obs.wdtDone)]
    /\ pc' = "die_mode"
    /\ UNCHANGED <<cv_table, ble, call, now, advances, wd, last_valid, dieLog, chk, ticks, envEvents,
                   loop, cache, sensors, dcc, mech, servoDuty, act, pm, sm,
                   event_buffer, file_queue, dieCtx>>

\* main.py:175-176: emergency_mode = True; log_event("SHUTDOWN", cause)
DieMode ==
    /\ pc = "die_mode"
    /\ mech' = [mech EXCEPT !.emergency_mode = TRUE]
    /\ event_buffer' = log_event(event_buffer, "SHUTDOWN", dieCtx.cause, now)
    /\ fx' = Append(fx, [op |-> "emergency_mode", v |-> 1])
    /\ pc' = "die_log"
    /\ UNCHANGED <<cv_table, ble, call, now, advances, wd, last_valid, dieLog, chk, ticks, envEvents,
                   loop, cache, sensors, dcc, servoDuty, boilerDuty, superDuty,
                   act, pm, sm, file_queue, dieCtx, obs>>

\* main.py:177-183: unless force_close_only, json.dumps the buffer and call
\* file_queue.enqueue inside try/except Exception: pass
DieLog ==
    /\ pc = "die_log"
    /\ IF ~dieCtx.force_close_only /\ FileWriteQueueHasEnqueue
       THEN /\ file_queue' = Append(file_queue, event_buffer)
            /\ fx' = Append(fx, [op |-> "enqueue", v |-> Len(event_buffer)])
       ELSE UNCHANGED <<file_queue, fx>>
    /\ pc' = "die_whistle"
    /\ UNCHANGED <<cv_table, ble, call, now, advances, wd, last_valid, dieLog, chk, ticks, envEvents,
                   loop, cache, sensors, dcc, mech, servoDuty, boilerDuty,
                   superDuty, act, pm, sm, event_buffer, dieCtx, obs>>

\* main.py:185-187: mech.target = float(cv[48]); mech.update(cv); time.sleep(5.0)
DieWhistle ==
    /\ pc = "die_whistle"
    /\ LET r == update([mech EXCEPT !.target = CV48 * SCALE], now)
       IN /\ mech' = r.m
          /\ servoDuty' = ServoAfter(servoDuty, r.writes)
          /\ fx' = fx \o ServoFx(r.writes) \o <<[op |-> "sleep", v |-> WHISTLE_WAIT_MS]>>
          /\ now' = now + r.slept + WHISTLE_WAIT_MS
          /\ obs' = [obs EXCEPT !.earlyWrite =
                        (obs.earlyWrite \/ (~obs.wdtDone /\ r.writes # <<>>))]
    /\ pc' = "die_neutral"
    /\ UNCHANGED <<cv_table, ble, call, advances, wd, last_valid, dieLog, chk, ticks, envEvents, loop,
                   cache, sensors, dcc, boilerDuty, superDuty, act, pm, sm,
                   event_buffer, file_queue, dieCtx>>

\* main.py:189-191: mech.target = float(cv[46]); mech.update(cv); time.sleep(0.5)
DieNeutral ==
    /\ pc = "die_neutral"
    /\ LET r == update([mech EXCEPT !.target = CV46 * SCALE], now)
       IN /\ mech' = r.m
          /\ servoDuty' = ServoAfter(servoDuty, r.writes)
          /\ fx' = fx \o ServoFx(r.writes) \o <<[op |-> "sleep", v |-> NEUTRAL_WAIT_MS]>>
          /\ now' = now + r.slept + NEUTRAL_WAIT_MS
          /\ obs' = [obs EXCEPT !.earlyWrite =
                        (obs.earlyWrite \/ (~obs.wdtDone /\ r.writes # <<>>))]
    /\ pc' = "die_cut"
    /\ UNCHANGED <<cv_table, ble, call, advances, wd, last_valid, dieLog, chk, ticks, envEvents, loop,
                   cache, sensors, dcc, boilerDuty, superDuty, act, pm, sm,
                   event_buffer, file_queue, dieCtx>>

\* main.py:192: self.mech.servo.duty(0)
DieCut ==
    /\ pc = "die_cut"
    /\ servoDuty' = 0
    /\ fx' = Append(fx, [op |-> "servo", v |-> 0])
    /\ obs' = [obs EXCEPT !.earlyWrite = (obs.earlyWrite \/ ~obs.wdtDone)]
    /\ pc' = "die_sleep"
    /\ UNCHANGED <<cv_table, ble, call, now, advances, wd, last_valid, dieLog, chk, ticks, envEvents,
                   loop, cache, sensors, dcc, mech, boilerDuty, superDuty, act, pm,
                   sm, event_buffer, file_queue, dieCtx>>

\* main.py:193-194: machine.deepsleep() unless force_close_only, else return
DieSleep ==
    /\ pc = "die_sleep"
    /\ IF dieCtx.force_close_only
       THEN /\ pc' = dieCtx.ret
            /\ fx' = Append(fx, [op |-> "return", v |-> 0])
       ELSE /\ pc' = "halted"
            /\ fx' = Append(fx, [op |-> "deepsleep", v |-> 0])
    /\ UNCHANGED <<cv_table, ble, call, now, advances, wd, last_valid, dieLog, chk, ticks, envEvents,
                   loop, cache, sensors, dcc, mech, servoDuty, boilerDuty,
                   superDuty, act, pm, sm, event_buffer, file_queue, dieCtx, obs>>

Next ==
    \/ ReadSensors \/ PowerProcess \/ EStopCheck \/ EStopClear \/ ProcessBle
    \/ WdtCheck \/ SetSpeed \/ PressureProcess \/ Background \/ SleepTick
    \/ DccPacket \/ EStopRequest
    \/ DieHeaters \/ DieMode \/ DieLog \/ DieWhistle \/ DieNeutral \/ DieCut
    \/ DieSleep

Spec == Init /\ [][Next]_vars

\* ---- claims checked under Spec ----

\* The operations of the latest die() call, in program order
FxOps == [i \in 1..Len(fx) |-> fx[i].op]

\* C2: once die has been invoked in a tick (for any cause, full or
\* force-close-only), both heater duties are 0 at the end of that tick, and no
\* nonzero heater duty is written during the following tick.
C2_HeatersStayOff ==
    /\ (pc = "sleep" /\ obs.died) => (boilerDuty = 0 /\ superDuty = 0)
    /\ obs.diedPrev => ~obs.heatOn

\* C4: in every tick no actuator output (boiler, superheater or servo duty) is
\* written before that tick's Watchdog check has been evaluated.
C4_WatchdogBeforeActuators == ~obs.earlyWrite

\* C5: within one tick, once a shutdown has been invoked (Watchdog trip or
\* e-stop), SpeedManager.set_speed is not executed in the rest of that tick.
C5_NoSpeedCommandAfterDie == ~obs.speedAfterDie

\* C6: the full emergency shutdown performs, strictly in this order: heaters
\* to 0, emergency_mode set, event log queued for persistence, servo to the
\* whistle position, 5 s wait, servo to CV46, 0.5 s wait, servo duty 0,
\* deep sleep.
C6_FullShutdownOrder ==
    (pc = "halted")
    => /\ FxOps = <<"heaters", "emergency_mode", "enqueue", "servo", "sleep",
                    "servo", "sleep", "servo", "deepsleep">>
       /\ fx[5].v = WHISTLE_WAIT_MS
       /\ fx[6].v = CV46
       /\ fx[7].v = NEUTRAL_WAIT_MS
       /\ fx[8].v = 0

\* C7: die(cause, force_close_only=True) performs only: heaters to 0,
\* emergency_mode set, servo moved to CV46; no log queued, no whistle move or
\* wait, no servo power cut, no deep sleep, and it returns to the loop.
C7_ForceCloseOnlyEffects ==
    (pc = "estop_clear")
    => /\ FxOps = <<"heaters", "emergency_mode", "servo", "return">>
       /\ fx[3].v = CV46

\* C8: in the running loop, when two or more sensor channels are failed at
\* the tick's Watchdog step, the mode has become CRITICAL and the full
\* emergency shutdown has been invoked in that tick.
C8_TwoFailedSensorsShutDown ==
    (obs.wdtDone /\ obs.failedAtCheck >= 2)
    => (wd.mode = "CRITICAL" /\ obs.died /\ ~dieCtx.force_close_only)

\* One sensor channel is failed at this tick's Watchdog step: the condition of
\* DEGRADED mode (in run() the Watchdog's own mode is never updated, see C8)
DegradedTick == wd.mode = "DEGRADED" \/ (obs.wdtDone /\ obs.failedAtCheck = 1)

C15_ServoWithinBounds ==
    /\ CV46 * SCALE <= mech.target /\ mech.target <= CV47 * SCALE
    /\ CV46 * SCALE <= mech.current /\ mech.current <= CV47 * SCALE
    /\ servoDuty = 0 \/ (CV46 <= servoDuty /\ servoDuty <= CV47)

\* C16: every duty on the boiler and the superheater PWM channel, whichever
\* writer put it there (staged PID output, blow-down spike, fallback, load
\* shedding, shutdown), is an integer in [0, 1023].
C16_HeaterDutyInRange ==
    /\ boilerDuty \in 0..PWM_MAX
    /\ superDuty \in 0..PWM_MAX

\* the blow-down spike has just written full duty to the superheater
C16_Witness == pc = "background" /\ superDuty = PWM_MAX /\ pm.spike_timer > 0

\* C18: in a tick where PowerManager has shed load, PressureManager does not
\* write the heater duties afterwards in the same tick, so the reduced duties
\* are the ones in effect when the tick ends.
C18_ShedDutiesSurviveTick ==
    [][(pc = "pressure" /\ obs.earlyWrite)
       => (boilerDuty' = boilerDuty /\ superDuty' = superDuty)]_vars

\* C21: when the regulator goes from closed to open the superheater duty is
\* 1023 for 1.0 s of control time and then returns to the staged value of the
\* pressure band; only the closed -> open transition starts the spike, so the
\* timer keeps running down while the regulator stays open.
C21_SpikeOnOpeningOnly ==
    [][(pc = "pressure")
       => LET opening == loop.dcc_speed > 0 /\ ~obs.openPrev
              dt == IF loop.time_ms > 0 THEN loop.time_ms ELSE DT_DEFAULT_MS
          IN /\ opening => pm'.spike_timer = SPIKE_MS - dt
             /\ ~opening => pm'.spike_timer = Max(0, pm.spike_timer - dt)
             /\ pm'.spike_timer > 0 => superDuty' = PWM_MAX
             /\ pm'.spike_timer = 0 => superDuty' = StagedSuper(loop.pressure)]_vars

\* C22: after a full emergency shutdown the event log, with the SHUTDOWN
\* entry carrying the cause, has been written to error_log.json before the
\* system entered deep sleep.  A write to flash would be an effect of die
\* ("write_file") preceding "deepsleep"; the SHUTDOWN entry is in the buffer.
C22_LogPersistedBeforeSleep ==
    (pc = "halted")
    => /\ \E i \in 1..Len(event_buffer) :
             event_buffer[i].type = "SHUTDOWN" /\ event_buffer[i].data = dieCtx.cause
       /\ \E i, j \in 1..Len(fx) :
             i < j /\ fx[i].op = "write_file" /\ fx[j].op = "deepsleep"

\* ---------------------------------------------------------------------------
\* SpecErr: the loop with an exception raised inside a tick
\* ---------------------------------------------------------------------------

\* main.py:528 -> speed_manager.py:59 -> actuators/__init__.py:52-54 ->
\* servo.py:89: set_goal(percent, direction, None) evaluates cv[47] on None.
\* The TypeError propagates through set_speed into run(), whose loop has no
\* try/except, so run() ends where it stands.
SetSpeedRaises ==
    /\ pc = "speed"
    /\ pc' = "crashed"
    /\ UNCHANGED <<cv_table, ble, call, now, advances, wd, last_valid, dieLog, chk, ticks, envEvents,
                   loop, cache, sensors, dcc, mech, servoDuty, boilerDuty,
                   superDuty, act, pm, sm, event_buffer, file_queue, dieCtx, fx, obs>>

NextErr == Next \/ SetSpeedRaises

SpecErr == Init /\ [][NextErr]_vars

\* ---- claims checked under SpecErr ----

\* C23: no exception escapes the control loop: an error raised inside a tick
\* is caught and the system enters the safe state (heaters 0, regulator
\* closed) instead of the loop ending with the actuators as they were.
C23_NoExceptionEscapes ==
    /\ pc # "crashed"
    /\ (pc = "crashed") => (boilerDuty = 0 /\ superDuty = 0 /\ mech.target = CV46 * SCALE)

\* ---------------------------------------------------------------------------
\* SpecBle: the control loop with the BLE write interrupt
\* ---------------------------------------------------------------------------

\* ble_uart.py:200-201: _IRQ_GATTS_WRITE runs _on_rx on the bytes written,
\* while the foreground sleeps
BleRx ==
    /\ Sleeping
    /\ envEvents < MaxEnvEvents
    /\ envEvents' = envEvents + 1
    /\ \E data \in CommandLines : ble' = on_rx(ble, data)
    /\ UNCHANGED <<cv_table, call, now, advances, wd, last_valid, dieLog, chk, pc, ticks,
                   loop, cache, sensors, dcc, mech, servoDuty, boilerDuty, superDuty,
                   act, pm, sm, event_buffer, file_queue, dieCtx, fx, obs>>

NextBle == Next \/ BleRx

SpecBle == Init /\ [][NextBle]_vars

\* ---- claims checked under SpecBle ----

\* the CV number and the value string of a queued CV<n>=<value> command
CommandCv(command_str) == IF command_str[4] = "2" THEN 42 ELSE 41
CommandValue(command_str) == IF command_str[4] = "2" THEN "1e2" ELSE "70"

\* C27: every well-formed, in-bounds CV<n>=<value> line in the command queue
\* is eventually applied to the CV table by the control loop, at most one
\* command per tick and in arrival order: the tick's command step applies the
\* head of a non-empty queue and removes it.
C27_QueuedCommandApplied ==
    [][(pc = "ble" /\ ble.rx_queue # <<>>)
       => LET command_str == Head(ble.rx_queue)
          IN /\ ble'.rx_queue = Tail(ble.rx_queue)
             /\ cv_table' = validate_and_update_cv(CommandCv(command_str),
                                                   CommandValue(command_str),
                                                   cv_table).table]_vars

\* ---------------------------------------------------------------------------
\* SpecCache: the control loop where a sensor read inside update_cache may raise
\* ---------------------------------------------------------------------------

\* cached_sensor_reader.py:25: "Cache never older than 200ms"
CACHE_AGE_LIMIT_MS == 200

\* the reads of update_cache, in call order
CacheReads == {"read_temps", "read_pressure", "read_track_voltage"}

\* main.py:552-556 with cached_sensor_reader.py:114-125 taking the except
\* branch: the cache is due and the read named by raising raises; what was
\* assigned before it stays assigned, _last_update_time is not reached and
\* the exception is swallowed
UpdateCacheRaises ==
    /\ pc = "background"
    /\ now - cache.last_update >= MAX_CACHE_AGE_MS
    /\ file_queue' = <<>>
    /\ \E raising \in CacheReads :
          IF raising = "read_temps"
          THEN UNCHANGED <<cache, sensors>>
          ELSE \E tb \in BoilerTemps, ts \in SuperTemps, tl \in LogicTemps,
                  p \in PressureReadings, f \in FailedChannels :
                  LET r == read_temps(sensors, <<tb, ts, tl>>, f)
                  IN /\ sensors' = r.s
                     /\ cache' = [cache EXCEPT
                                    !.temps = r.t,
                                    !.pressure = IF raising = "read_track_voltage"
                                                 THEN p ELSE cache.pressure]
    /\ pc' = "sleep"
    /\ UNCHANGED <<cv_table, ble, call, now, advances, wd, last_valid, dieLog, chk, ticks, envEvents,
                   loop, dcc, mech, servoDuty, boilerDuty, superDuty, act, pm, sm,
                   event_buffer, dieCtx, fx, obs>>

NextCache == Next \/ UpdateCacheRaises

SpecCache == Init /\ [][NextCache]_vars

\* C39: a refresh that fails part-way (it was due and did not reach the
\* assignment of _last_update_time) leaves temperatures, pressure and track
\* voltage of the cache as they were.
C39_FailedRefreshKeepsCache ==
    [][(/\ pc = "background" /\ pc' = "sleep"
        /\ now - cache.last_update >= MAX_CACHE_AGE_MS
        /\ cache'.last_update # now) => cache' = cache]_vars

\* C29: at every tick of the running loop the cached readings handed out by
\* get_temps, get_track_voltage and get_pressure are at most 200 ms old, also
\* after a sensor read has failed.
C29_CacheAgeBounded ==
    pc = "power" => loop.loop_start - cache.last_update <= CACHE_AGE_LIMIT_MS

\* ---- further claims checked under Spec ----

\* the mapper as update() finds it in the set_speed step: the old fields with
\* the target set_goal has just stored
MechAtUpdate == [mech EXCEPT !.target = mech'.target]

\* update() wrote the stiction kick duty ahead of the position
KickWritten ==
    LET w == update(MechAtUpdate, now).writes
    IN Len(w) = 2 /\ w[1] = KickDuty

\* the move starts from rest toward a target above CV46
StartsFromRest ==
    /\ MechAtUpdate.was_stopped /\ ~MechAtUpdate.stiction_applied
    /\ MechAtUpdate.target > CV46 * SCALE
    /\ MechAtUpdate.current # MechAtUpdate.target

\* C32: an update that starts a move from rest toward a target above CV46
\* writes the kick duty once and sets stiction_applied; a kick is written only
\* when the previous update found the servo at rest at its target.
C32_StictionKickOnce ==
    [][(pc = "speed" /\ pc' = "pressure") =>
          /\ StartsFromRest => (KickWritten /\ mech'.stiction_applied)
          /\ KickWritten => (mech.was_stopped /\ ~mech.stiction_applied)]_vars

\* C36: once a force-close-only e-stop has been handled and the flag cleared,
\* the loop moves the regulator with emergency_mode off again.
C36_EmergencyModeCleared ==
    pc = "speed" => ~mech.emergency_mode

====
